---- MODULE Spec2Model ----
(***************************************************************************)
(* A model of the Ansible MCP server (src/src/mcp/mcp_server.py) and of    *)
(* the AnsibleClient library (src/src/ansible_client/client.py):           *)
(*   - Spec        the life cycle of one tool call, step by step, with the *)
(*                 file system the run touches and the faults it can meet; *)
(*   - SpecAdHoc, SpecEvents, SpecArgs, SpecInventory                      *)
(*                 the pure translations (event stream, argument string,   *)
(*                 inventory encoding) applied to bounded inputs;          *)
(*   - SpecRoundTrip, SpecPlaybook                                         *)
(*                 the codecs: an inventory encoded, listed and decoded; a *)
(*                 playbook dumped by create_playbook, a playbook file     *)
(*                 read by load_playbook;                                  *)
(*   - SpecListing  load_inventory on any listing the engine may print;    *)
(*   - SpecRegistry the tool registry of src/src/mcp/server/fastmcp.py;    *)
(*   - SpecLifespan FastMCP.run with the server's lifespan;                *)
(*   - SpecOverlap  runs whose lifetimes overlap in the private directory. *)
(***************************************************************************)
EXTENDS Integers, Sequences, FiniteSets, TLC

VARIABLES
    impl,           \* "mcp" (mcp_server.py tool handler) or "client" (AnsibleClient method)
    tool,           \* the tool being called
    pc,             \* position of the call inside its handler
    config,         \* request.config, as far as the handler reads it
    fs,             \* the file system: existing path |-> content
    bound,          \* 'private_data_dir' in locals() of the handler
    exc,            \* message of the exception raised inside the try block, or NoExc
    failure,        \* why the call failed, as the handler saw it ("none" when it did not)
    runner,         \* what ansible_runner.run returned, or NoRunner
    captured,       \* stdout / stderr as read back from the private directory
    removalFailed,  \* shutil.rmtree(ignore_errors=True) met an error it swallowed
    responses,      \* the response objects the call has returned
    phase,          \* "input" / "done" of the pure translations
    events,         \* runner.events
    results,        \* run_ad_hoc_command: results by host
    task_results,   \* run_playbook: the TaskResult list
    args,           \* AdHocCommandRequest.args, in mapping order
    module_args,    \* the argument string handed to the engine
    inventory,      \* an Inventory value
    inventory_data, \* the mapping create_inventory dumps
    modes,          \* permission bits of the files the run has set them on
    engine_calls,   \* how many times the call has invoked ansible_runner
    loaded_inventory, \* the Inventory load_inventory builds from the listing
    playbook,       \* a Playbook value
    playbook_data,  \* the list of play mappings create_playbook dumps / load_playbook reads
    loaded_playbook, \* the Playbook load_playbook builds
    tools,          \* FastMCP.tools, the tool registry
    registered,     \* the handlers the decorator has been applied to, in order
    runner_config,  \* the keyword arguments handed to ansible_runner.run
    listing,        \* the listing ansible-inventory --list printed, keys in order
    sessions,       \* overlapping runs: run |-> its position, directory and output
    lifespan        \* FastMCP.run: its position, request_context and the lifespan

callVars == <<impl, tool, pc, config, fs, bound, exc, failure, runner, captured,
              removalFailed, responses, modes, engine_calls, runner_config>>
codecVars == <<loaded_inventory, playbook, playbook_data, loaded_playbook, tools,
               registered>>
serverVars == <<listing, sessions, lifespan>>
pureVars == <<phase, events, results, task_results, args, module_args,
              inventory, inventory_data, codecVars, serverVars>>
vars == <<impl, tool, pc, config, fs, bound, exc, failure, runner, captured,
          removalFailed, responses, phase, events, results, task_results, args,
          module_args, inventory, inventory_data, modes, engine_calls,
          loaded_inventory, playbook, playbook_data, loaded_playbook, tools,
          registered, runner_config, listing, sessions, lifespan>>

----------------------------------------------------------------------------
(* Python values *)

None == "None"
NoExc == "NoExc"
NoRunner == [rc |-> -1, returned |-> FALSE]

\* a Python dict: a function from its keys; {} is the function of empty domain
EmptyDict == [k \in {} |-> None]

DictPut(d, k, v) == [x \in (DOMAIN d) \cup {k} |-> IF x = k THEN v ELSE d[x]]

DictGet(d, k, default) == IF k \in DOMAIN d THEN d[k] ELSE default

----------------------------------------------------------------------------
(* The file system *)

IsPrefix(p, q) == Len(p) <= Len(q) /\ SubSeq(q, 1, Len(p)) = p

PrivateDataDir == <<"private">>
\* state.private_data_dir / f"run_{run_id}"
RunDir == <<"private", "run_id">>
StdoutPath == RunDir \o <<"stdout">>
StderrPath == RunDir \o <<"stderr">>
EnvDir == RunDir \o <<"env">>
SshKeyPath == EnvDir \o <<"ssh_key">>
KeySource == <<"home", "id_rsa">>

Dir == "<dir>"

Exists(f, p) == p \in DOMAIN f

WriteFile(f, p, content) == DictPut(f, p, content)

Mkdir(f, p) == IF Exists(f, p) THEN f ELSE DictPut(f, p, Dir)

\* shutil.rmtree(dir, ignore_errors=True), when nothing goes wrong
Rmtree(f, dir) == [p \in {q \in DOMAIN f : ~IsPrefix(dir, q)} |-> f[p]]

\* permission bits: os.chmod(path, 0o600), and what open(path, 'w') gives a new file
OwnerOnly == "0600"
UmaskDefault == "0666 & ~umask"

\* the permission records that go away with the tree below dir
RmtreeModes(m, dir) == [p \in {q \in DOMAIN m : ~IsPrefix(dir, q)} |-> m[p]]

----------------------------------------------------------------------------
(* The engine's event stream *)

MaxAdHocEvents == 3
MaxPlaybookEvents == 2

EventKinds == {"runner_on_ok", "runner_on_failed", "runner_on_skipped",
               "runner_on_unreachable", "runner_on_changed", "runner_on_start"}

\* an optional field is a set of at most one value: {} when the key is absent
Opt(S) == {{}} \cup {{x} : x \in S}

TheValue(o) == CHOOSE x \in o : TRUE

\* event['event_data']: the keys that are present, each with its value
EventData(task, host, changed, res) ==
    [k \in {x \in {"task"} : task # {}} \cup {x \in {"host"} : host # {}}
           \cup {x \in {"changed"} : changed # {}} \cup {x \in {"res"} : res # {}} |->
        CASE k = "task" -> TheValue(task)
          [] k = "host" -> TheValue(host)
          [] k = "changed" -> TheValue(changed)
          [] OTHER -> TheValue(res)]

Event(kind, task, host, changed, res) ==
    [event |-> kind, event_data |-> EventData(task, host, changed, res)]

\* the payload the engine attaches to its i-th event
Payload(i) == [msg |-> i]

\* what an ad-hoc run can emit as its i-th event
AdHocEvents(i) ==
    {Event(kind, {}, host, {}, res) :
        kind \in EventKinds, host \in Opt({"h1", "h2", ""}), res \in Opt({Payload(i)})}

\* what a playbook run can emit as its i-th event
PlaybookEvents(i) ==
    {Event(kind, th[1], th[2], changed, res) :
        kind \in EventKinds, th \in Opt({"t1"}) \X Opt({"h1"}),
        changed \in Opt(BOOLEAN), res \in Opt({Payload(i)})}

\* Python truthiness of event_data.get('host')
Truthy(host) == host # None /\ host # ""

\* a collapse that keeps the first payload seen for a host
AdHocStepFirstWins(res, event) ==
    IF event.event \in {"runner_on_ok", "runner_on_failed", "runner_on_unreachable"}
    THEN LET host == DictGet(event.event_data, "host", None)
         IN  IF Truthy(host) /\ host \notin DOMAIN res
             THEN DictPut(res, host, DictGet(event.event_data, "res", EmptyDict))
             ELSE res
    ELSE res

\* run_ad_hoc_command, the body of "for event in runner.events"
AdHocStep(res, event) ==
    IF event.event \in {"runner_on_ok", "runner_on_failed", "runner_on_unreachable"}
    THEN LET host == DictGet(event.event_data, "host", None)
         IN  IF Truthy(host)
             THEN DictPut(res, host, DictGet(event.event_data, "res", EmptyDict))
             ELSE res
    ELSE res

TaskResult(event, status, changed, result) ==
    [task_name |-> DictGet(event.event_data, "task", "unnamed task"),
     host |-> DictGet(event.event_data, "host", ""),
     status |-> status,
     changed |-> changed,
     result |-> result]

\* a translation that passes the payload of a skipped event through and takes
\* the changed flag of a changed event from the payload
ProcessEventPayloadThrough(acc, event) ==
    LET data == event.event_data
        status == CASE event.event = "runner_on_ok" -> "ok"
                    [] event.event = "runner_on_failed" -> "failed"
                    [] event.event = "runner_on_skipped" -> "skipped"
                    [] event.event = "runner_on_unreachable" -> "unreachable"
                    [] event.event = "runner_on_changed" -> "changed"
                    [] OTHER -> None
    IN  IF status = None THEN acc
        ELSE Append(acc, TaskResult(event, status, DictGet(data, "changed", FALSE),
                                    DictGet(data, "res", EmptyDict)))

\* a translation that keeps one entry per (task, host) pair
ProcessEventDedup(acc, event) ==
    LET data == event.event_data
        status == CASE event.event = "runner_on_ok" -> "ok"
                    [] event.event = "runner_on_failed" -> "failed"
                    [] event.event = "runner_on_skipped" -> "skipped"
                    [] event.event = "runner_on_unreachable" -> "unreachable"
                    [] event.event = "runner_on_changed" -> "changed"
                    [] OTHER -> None
        new == TaskResult(event, status,
                          CASE status = "changed" -> TRUE
                            [] status \in {"ok", "failed"} -> DictGet(data, "changed", FALSE)
                            [] OTHER -> FALSE,
                          IF status = "skipped" THEN EmptyDict
                          ELSE DictGet(data, "res", EmptyDict))
    IN  IF status = None THEN acc
        ELSE IF \E k \in 1..Len(acc) :
                    acc[k].task_name = new.task_name /\ acc[k].host = new.host
             THEN acc
             ELSE Append(acc, new)

\* run_playbook / _process_events, the body of "for event in runner.events"
ProcessEvent(acc, event) ==
    LET data == event.event_data
    IN  CASE event.event = "runner_on_ok" ->
               Append(acc, TaskResult(event, "ok", DictGet(data, "changed", FALSE),
                                      DictGet(data, "res", EmptyDict)))
          [] event.event = "runner_on_failed" ->
               Append(acc, TaskResult(event, "failed", DictGet(data, "changed", FALSE),
                                      DictGet(data, "res", EmptyDict)))
          [] event.event = "runner_on_skipped" ->
               Append(acc, TaskResult(event, "skipped", FALSE, EmptyDict))
          [] event.event = "runner_on_unreachable" ->
               Append(acc, TaskResult(event, "unreachable", FALSE,
                                      DictGet(data, "res", EmptyDict)))
          [] event.event = "runner_on_changed" ->
               Append(acc, TaskResult(event, "changed", TRUE,
                                      DictGet(data, "res", EmptyDict)))
          [] OTHER -> acc

RECURSIVE CollapseResults(_, _)
\* the whole loop of run_ad_hoc_command over a finished stream
CollapseResults(res, evs) ==
    IF evs = <<>> THEN res ELSE CollapseResults(AdHocStep(res, Head(evs)), Tail(evs))

RECURSIVE ProcessEvents(_, _)
\* the whole loop of run_playbook over a finished stream
ProcessEvents(acc, evs) ==
    IF evs = <<>> THEN acc ELSE ProcessEvents(ProcessEvent(acc, Head(evs)), Tail(evs))

----------------------------------------------------------------------------
(* The ad-hoc argument string.  A text is the sequence of its characters. *)

MaxArgs == 2

Whitespace == {" ", "\t", "\n"}

Digits == <<"0", "1", "2", "3", "4", "5", "6", "7", "8", "9">>

RECURSIVE NatStr(_)
\* str(n) for an int n >= 0
NatStr(n) == IF n < 10 THEN <<Digits[n + 1]>>
             ELSE NatStr(n \div 10) \o <<Digits[(n % 10) + 1]>>

\* str(n) for an int
IntStr(n) == IF n < 0 THEN <<"-">> \o NatStr(0 - n) ELSE NatStr(n)

\* the Python values an argument can hold
BoolVal(b) == [type |-> "bool", bool |-> b]
IntVal(n) == [type |-> "int", int |-> n]
FloatVal(whole, tenths) == [type |-> "float", whole |-> whole, tenths |-> tenths]
StrVal(chars) == [type |-> "str", str |-> chars]
NoneValue == [type |-> "NoneType"]

\* isinstance(value, bool)
IsBool(value) == value.type = "bool"

\* isinstance(value, (int, float)): bool is a subclass of int
IsNumber(value) == value.type \in {"bool", "int", "float"}

\* f"{value}"
Format(value) ==
    CASE value.type = "bool" ->
           IF value.bool THEN <<"T", "r", "u", "e">> ELSE <<"F", "a", "l", "s", "e">>
      [] value.type = "int" -> IntStr(value.int)
      [] value.type = "float" -> IntStr(value.whole) \o <<".">> \o NatStr(value.tenths)
      [] value.type = "str" -> value.str
      [] OTHER -> <<"N", "o", "n", "e">>

\* a serialisation that tests for a number before it tests for a boolean
AppendArgNumberFirst(acc, key, value) ==
    IF IsNumber(value) THEN acc \o <<" ">> \o key \o <<"=">> \o Format(value)
    ELSE IF IsBool(value)
    THEN acc \o <<" ">> \o key \o (IF value.bool THEN <<"=", "y", "e", "s">> ELSE <<"=", "n", "o">>)
    ELSE acc \o <<" ">> \o key \o <<"=", "'">> \o Format(value) \o <<"'">>

\* one turn of "for key, value in request.args.items()"
AppendArg(acc, key, value) ==
    IF IsBool(value)
    THEN acc \o <<" ">> \o key \o (IF value.bool THEN <<"=", "y", "e", "s">> ELSE <<"=", "n", "o">>)
    ELSE IF IsNumber(value)
    THEN acc \o <<" ">> \o key \o <<"=">> \o Format(value)
    ELSE acc \o <<" ">> \o key \o <<"=", "'">> \o Format(value) \o <<"'">>

RECURSIVE LStrip(_)
LStrip(s) == IF s # <<>> /\ Head(s) \in Whitespace THEN LStrip(Tail(s)) ELSE s

RECURSIVE RStrip(_)
RStrip(s) == IF s # <<>> /\ s[Len(s)] \in Whitespace
             THEN RStrip(SubSeq(s, 1, Len(s) - 1)) ELSE s

\* str.strip()
Strip(s) == RStrip(LStrip(s))

RECURSIVE AppendArgs(_, _)
AppendArgs(acc, items) ==
    IF items = <<>> THEN acc
    ELSE AppendArgs(AppendArg(acc, Head(items)[1], Head(items)[2]), Tail(items))

\* module_args as handed to the engine: the loop, then .strip()
ModuleArgs(items) == Strip(AppendArgs(<<>>, items))

ArgKeys == {<<"n", "a", "m", "e">>, <<"s", "t", "a", "t", "e">>, <<"k">>}

ArgValues ==
    {BoolVal(TRUE), BoolVal(FALSE), IntVal(0), IntVal(1), IntVal(80), IntVal(-5),
     FloatVal(1, 5), NoneValue,
     StrVal(<<"n", "g", "i", "n", "x">>), StrVal(<<"s", "t", "a", "r", "t", "e", "d">>),
     StrVal(<<>>), StrVal(<<" ", "a", " ", "b", " ">>)}

\* the argument mappings: items in mapping order, no key twice
ArgMappings ==
    UNION {{m \in [1..n -> ArgKeys \X ArgValues] :
               \A i, j \in 1..n : i # j => m[i][1] # m[j][1]} : n \in 0..MaxArgs}

----------------------------------------------------------------------------
(* Inventory encoding: the mapping create_inventory, run_playbook,            *)
(* run_ad_hoc_command and AnsibleClient build before yaml.safe_dump           *)

MaxHosts == 2
MaxGroups == 2

RECURSIVE SeqRange(_)
SeqRange(q) == IF q = <<>> THEN {} ELSE {Head(q)} \cup SeqRange(Tail(q))

\* an entry insertion that replaces the group's entry instead of merging into it
AddHostToGroupOverwrite(data, group, host) ==
    DictPut(data, group,
            [k \in {"hosts"} |-> DictPut(EmptyDict, host.name, host.variables)])

\* inventory_data[group]['hosts'][host.name] = host.variables, after making
\* sure that inventory_data[group] and its 'hosts' key exist
AddHostToGroup(data, group, host) ==
    LET d1 == IF group \notin DOMAIN data
              THEN DictPut(data, group, [k \in {"hosts"} |-> EmptyDict])
              ELSE IF "hosts" \notin DOMAIN data[group]
              THEN DictPut(data, group, DictPut(data[group], "hosts", EmptyDict))
              ELSE data
    IN  DictPut(d1, group,
                DictPut(d1[group], "hosts",
                        DictPut(d1[group]["hosts"], host.name, host.variables)))

RECURSIVE AddHostToGroups(_, _, _)
\* for group in host.groups
AddHostToGroups(data, groups, host) ==
    IF groups = <<>> THEN data
    ELSE AddHostToGroups(AddHostToGroup(data, Head(groups), host), Tail(groups), host)

\* one turn of "for host in inventory.hosts"
ProcessHost(data, host) ==
    IF host.groups # <<>>
    THEN AddHostToGroups(data, host.groups, host)
    ELSE AddHostToGroup(data, "ungrouped", host)

RECURSIVE AddChildren(_, _)
\* for child in group.children: children[child] = {}
AddChildren(children, names) ==
    IF names = <<>> THEN children
    ELSE AddChildren(DictPut(children, Head(names), EmptyDict), Tail(names))

\* a group step that starts the group's entry afresh
ProcessGroupReset(data, group) ==
    LET d1 == DictPut(data, group.name, EmptyDict)
        d2 == IF group.variables # EmptyDict
              THEN DictPut(d1, group.name, DictPut(d1[group.name], "vars", group.variables))
              ELSE d1
    IN  IF group.children # <<>>
        THEN DictPut(d2, group.name,
                     DictPut(d2[group.name], "children", AddChildren(EmptyDict, group.children)))
        ELSE d2

\* one turn of "for group in inventory.groups"
ProcessGroup(data, group) ==
    LET d1 == IF group.name \notin DOMAIN data
              THEN DictPut(data, group.name, EmptyDict)
              ELSE data
        d2 == IF group.variables # EmptyDict
              THEN DictPut(d1, group.name, DictPut(d1[group.name], "vars", group.variables))
              ELSE d1
    IN  IF group.children # <<>>
        THEN LET d3 == IF "children" \notin DOMAIN d2[group.name]
                       THEN DictPut(d2, group.name,
                                    DictPut(d2[group.name], "children", EmptyDict))
                       ELSE d2
             IN  DictPut(d3, group.name,
                         DictPut(d3[group.name], "children",
                                 AddChildren(d3[group.name]["children"], group.children)))
        ELSE d2

RECURSIVE ProcessHosts(_, _)
ProcessHosts(data, hosts) ==
    IF hosts = <<>> THEN data ELSE ProcessHosts(ProcessHost(data, Head(hosts)), Tail(hosts))

RECURSIVE ProcessGroups(_, _)
ProcessGroups(data, groups) ==
    IF groups = <<>> THEN data
    ELSE ProcessGroups(ProcessGroup(data, Head(groups)), Tail(groups))

\* inventory_data as dumped: hosts first, then the explicit groups
EncodeInventory(inv) == ProcessGroups(ProcessHosts(EmptyDict, inv.hosts), inv.groups)

HostVariables == {EmptyDict, [ansible_host |-> "10.0.0.1"]}
GroupVariables == {EmptyDict, [http_port |-> "80"]}

InventoryHosts ==
    [name : {"web1", "db1"}, variables : HostVariables,
     groups : {<<>>, <<"web">>, <<"web", "ungrouped">>}]

InventoryGroups ==
    [name : {"web", "ungrouped"}, variables : GroupVariables, children : {<<>>, <<"db">>}]

SeqsUpTo(S, n) == UNION {[1..k -> S] : k \in 0..n}

Inventories ==
    [hosts : SeqsUpTo(InventoryHosts, MaxHosts), groups : SeqsUpTo(InventoryGroups, MaxGroups)]

----------------------------------------------------------------------------
(* One tool call.  The handlers of mcp_server.py and the methods of            *)
(* AnsibleClient run the same steps; where they differ the step asks impl.     *)

RunTools == {"run_playbook", "run_ad_hoc_command"}
FileTools == {"create_inventory", "load_inventory", "create_playbook", "load_playbook"}
McpOnlyTools == {"get_ssh_keys", "list_playbooks", "list_inventories"}

MissingKey == <<"home", "no_such_key">>
InventoryPath == <<"inventory", "hosts.yml">>
PlaybookPath == <<"playbooks", "site.yml">>
MissingPath == <<"no", "such", "file">>
NewInventoryPath == <<"inventory", "inventory_uuid.yml">>
NewPlaybookPath == <<"playbooks", "playbook_uuid.yml">>

\* the inventory of the end-to-end scenario
SampleInventory ==
    [hosts |-> <<[name |-> "web1", variables |-> EmptyDict, groups |-> <<"web">>],
                 [name |-> "db1", variables |-> EmptyDict, groups |-> <<>>]>>,
     groups |-> <<>>]

SamplePlaybook == "playbook"

\* the file system a call starts from: the lifespan has made the base directories
CallFs ==
    [p \in {PrivateDataDir, <<"inventory">>, <<"playbooks">>, KeySource,
            InventoryPath, PlaybookPath} |->
        CASE p = KeySource -> "KEY MATERIAL"
          [] p = InventoryPath -> "inventory file"
          [] p = PlaybookPath -> "playbook file"
          [] OTHER -> Dir]

\* where the rendered inventory goes: the handlers write below the run's
\* directory, AnsibleClient below tempfile.mkdtemp(prefix="ansible_inventory_")
InventoryDir == IF impl = "mcp" THEN RunDir \o <<"inventory">>
                ELSE <<"tmp", "ansible_inventory_x">>
InventoryFile == InventoryDir \o <<"inventory.yml">>

PlaybookDir == IF impl = "mcp" THEN RunDir \o <<"project">>
               ELSE <<"tmp", "ansible_playbook_x">>
PlaybookFile == PlaybookDir \o <<"playbook.yml">>

\* AnsibleConfig.timeout: Optional[int]
Timeouts == {0, 30}

Configs ==
    [inventory : Opt({SampleInventory}), inventory_path : Opt({InventoryPath}),
     playbook : Opt({SamplePlaybook}), playbook_path : Opt({PlaybookPath}),
     private_key_path : Opt({KeySource, MissingKey}),
     private_key_content : Opt({"INLINE KEY"}),
     key_passphrase : Opt({"PASSPHRASE"}),
     timeout : Opt(Timeouts)]

\* the streams the engine of a call produces
SampleStreams ==
    {<<>>,
     <<Event("runner_on_ok", {"t1"}, {"h1"}, {FALSE}, {Payload(1)}),
       Event("runner_on_failed", {"t1"}, {"h1"}, {}, {Payload(2)})>>}

EngineStats == [h1 |-> "stats"]

\* an exception that leaves the handler instead of reaching its except clause
RaisePropagates(msg) ==
    /\ exc' = msg
    /\ failure' = "exception"
    /\ pc' = "crashed"

\* an exception raised inside the handler's try block: control goes to
\* "except Exception as e"
Raise(msg) ==
    /\ exc' = msg
    /\ failure' = "exception"
    /\ pc' = "except"

\* a failure result that carries no message
FailureResultSilent(t, e) ==
    IF t = "run_playbook"
    THEN [success |-> FALSE, stats |-> EmptyDict, task_results |-> <<>>,
          stdout |-> "", stderr |-> ""]
    ELSE [success |-> FALSE, results |-> EmptyDict, stdout |-> "", stderr |-> ""]

\* the response the except clause of tool t returns for str(e)
FailureResult(t, e) ==
    CASE t = "run_playbook" ->
           [success |-> FALSE, stats |-> EmptyDict, task_results |-> <<>>,
            stdout |-> "", stderr |-> e]
      [] t = "run_ad_hoc_command" ->
           [success |-> FALSE, results |-> EmptyDict, stdout |-> "", stderr |-> e]
      [] t = "create_inventory" ->
           [success |-> FALSE, message |-> <<"Failed to create inventory: ", e>>]
      [] t = "load_inventory" ->
           [success |-> FALSE, message |-> <<"Failed to load inventory: ", e>>]
      [] t = "create_playbook" ->
           [success |-> FALSE, message |-> <<"Failed to create playbook: ", e>>]
      [] t = "load_playbook" ->
           [success |-> FALSE, message |-> <<"Failed to load playbook: ", e>>]
      [] t = "get_ssh_keys" ->
           [success |-> FALSE, keys |-> <<>>, message |-> <<"Failed to get SSH keys: ", e>>]
      [] t = "list_playbooks" ->
           [success |-> FALSE, playbooks |-> <<>>,
            message |-> <<"Failed to list playbooks: ", e>>]
      [] OTHER ->
           [success |-> FALSE, inventories |-> <<>>,
            message |-> <<"Failed to list inventories: ", e>>]

\* a result whose flag does not look at the return code
RunResultAlwaysSuccess ==
    IF tool = "run_playbook"
    THEN [success |-> TRUE, stats |-> EngineStats, task_results |-> task_results,
          stdout |-> captured.stdout, stderr |-> captured.stderr]
    ELSE [success |-> TRUE, results |-> results,
          stdout |-> captured.stdout, stderr |-> captured.stderr]

\* the result of a run that reached its return statement
RunResult ==
    IF tool = "run_playbook"
    THEN [success |-> (runner.rc = 0), stats |-> EngineStats, task_results |-> task_results,
          stdout |-> captured.stdout, stderr |-> captured.stderr]
    ELSE [success |-> (runner.rc = 0), results |-> results,
          stdout |-> captured.stdout, stderr |-> captured.stderr]

Return(response) ==
    /\ responses' = Append(responses, response)
    /\ pc' = "done"

\* a client calls a tool
Call ==
    /\ pc = "idle"
    /\ phase = "call"
    /\ \E i \in {"mcp", "client"}, t \in RunTools \cup FileTools \cup McpOnlyTools :
          /\ i = "client" => t \notin McpOnlyTools
          /\ impl' = i
          /\ tool' = t
          /\ CASE t \in RunTools -> config' \in Configs
               [] t = "load_inventory" -> config' \in [path : {InventoryPath, MissingPath}]
               [] t = "load_playbook" -> config' \in [path : {PlaybookPath, MissingPath}]
               [] OTHER -> config' = EmptyDict
    /\ pc' = "start"
    /\ UNCHANGED <<fs, bound, exc, failure, runner, captured, removalFailed, responses>>
    /\ UNCHANGED <<modes, engine_calls, runner_config>>
    /\ UNCHANGED pureVars

\* await ctx.info("Preparing to run ..."): the first statement of the handlers' try
\* block; AnsibleClient starts with _prepare_runner_config
Preparing ==
    /\ pc = "start"
    /\ tool \in RunTools
    /\ \/ pc' = "mkdir" /\ UNCHANGED <<exc, failure>>
       \/ impl = "mcp" /\ Raise("ctx.info failed")
    /\ UNCHANGED <<impl, tool, config, fs, bound, runner, captured, removalFailed, responses>>
    /\ UNCHANGED <<modes, engine_calls, runner_config>>
    /\ UNCHANGED pureVars

\* private_data_dir = .../run_<uuid>; mkdir.  In the handlers the name is a local
\* of the handler from here on; in AnsibleClient it is a local of
\* _prepare_runner_config until that method returns
CreateRunDir ==
    /\ pc = "mkdir"
    /\ bound' = (impl = "mcp")
    /\ \/ fs' = Mkdir(fs, RunDir) /\ pc' = "inventory" /\ UNCHANGED <<exc, failure>>
       \/ Raise("mkdir failed") /\ UNCHANGED fs
    /\ UNCHANGED <<impl, tool, config, runner, captured, removalFailed, responses>>
    /\ UNCHANGED <<modes, engine_calls, runner_config>>
    /\ UNCHANGED pureVars

AfterInventory == IF impl = "mcp" /\ tool = "run_ad_hoc_command" THEN "ssh" ELSE "playbook"

\* if config.inventory and not inventory_path: render the inventory to a file
PrepareInventory ==
    /\ pc = "inventory"
    /\ IF config.inventory # {} /\ config.inventory_path = {}
       THEN \/ /\ fs' = WriteFile(Mkdir(fs, InventoryDir), InventoryFile,
                                  EncodeInventory(TheValue(config.inventory)))
               /\ pc' = AfterInventory
               /\ UNCHANGED <<exc, failure>>
            \/ /\ fs' = Mkdir(fs, InventoryDir)
               /\ Raise("inventory write failed")
       ELSE pc' = AfterInventory /\ UNCHANGED <<fs, exc, failure>>
    /\ UNCHANGED <<impl, tool, config, bound, runner, captured, removalFailed, responses>>
    /\ UNCHANGED <<modes, engine_calls, runner_config>>
    /\ UNCHANGED pureVars

\* if config.playbook and not playbook_path: render the playbook to a file
\* (run_playbook, and _prepare_runner_config for both client methods)
PreparePlaybook ==
    /\ pc = "playbook"
    /\ IF config.playbook # {} /\ config.playbook_path = {}
       THEN \/ /\ fs' = WriteFile(Mkdir(fs, PlaybookDir), PlaybookFile,
                                  TheValue(config.playbook))
               /\ pc' = "ssh"
               /\ UNCHANGED <<exc, failure>>
            \/ /\ fs' = Mkdir(fs, PlaybookDir)
               /\ Raise("playbook write failed")
       ELSE pc' = "ssh" /\ UNCHANGED <<fs, exc, failure>>
    /\ UNCHANGED <<impl, tool, config, bound, runner, captured, removalFailed, responses>>
    /\ UNCHANGED <<modes, engine_calls, runner_config>>
    /\ UNCHANGED pureVars

\* a key file left with the bits open(path, 'w') gave it
InlineKeyModeUnchanged == UmaskDefault

\* the bits of env/ssh_key once the inline branch is through:
\* os.chmod(ssh_dir / "ssh_key", 0o600)
InlineKeyMode == OwnerOnly

\* a key step with two independent tests instead of if / elif: the inline content
\* is written over the copy
SetupSshKeysBoth ==
    /\ pc = "ssh"
    /\ IF config.private_key_path # {} \/ config.private_key_content # {}
       THEN IF config.private_key_path # {} /\ ~Exists(fs, TheValue(config.private_key_path))
            THEN /\ fs' = Mkdir(fs, EnvDir)
                 /\ Raise("No such file or directory: private key")
                 /\ UNCHANGED modes
            ELSE /\ fs' = WriteFile(Mkdir(fs, EnvDir), SshKeyPath,
                                    IF config.private_key_content # {}
                                    THEN TheValue(config.private_key_content)
                                    ELSE fs[TheValue(config.private_key_path)])
                 /\ modes' = DictPut(modes, SshKeyPath, OwnerOnly)
                 /\ pc' = "config"
                 /\ UNCHANGED <<exc, failure>>
       ELSE pc' = "config" /\ UNCHANGED <<fs, exc, failure, modes>>
    /\ UNCHANGED <<impl, tool, config, bound, runner, captured, removalFailed, responses>>
    /\ UNCHANGED <<engine_calls, runner_config>>
    /\ UNCHANGED pureVars

\* if ssh_config and (private_key_path or private_key_content): env/ssh_key.
\* A key path wins over inline content; shutil.copy carries the source's bits,
\* whatever they are, to the copy; inline content is written and then chmod-ed
SetupSshKeys ==
    /\ pc = "ssh"
    /\ IF config.private_key_path # {} \/ config.private_key_content # {}
       THEN IF config.private_key_path # {}
            THEN IF Exists(fs, TheValue(config.private_key_path))
                 THEN /\ fs' = WriteFile(Mkdir(fs, EnvDir), SshKeyPath,
                                         fs[TheValue(config.private_key_path)])
                      /\ \E m \in {OwnerOnly, UmaskDefault} :
                            modes' = DictPut(modes, SshKeyPath, m)
                      /\ pc' = "config"
                      /\ UNCHANGED <<exc, failure>>
                 ELSE /\ fs' = Mkdir(fs, EnvDir)
                      /\ Raise("No such file or directory: private key")
                      /\ UNCHANGED modes
            ELSE /\ fs' = WriteFile(Mkdir(fs, EnvDir), SshKeyPath,
                                    TheValue(config.private_key_content))
                 /\ \/ /\ modes' = DictPut(modes, SshKeyPath, InlineKeyMode)
                       /\ pc' = "config"
                       /\ UNCHANGED <<exc, failure>>
                    \/ /\ modes' = DictPut(modes, SshKeyPath, UmaskDefault)
                       /\ Raise("chmod failed")
       ELSE pc' = "config" /\ UNCHANGED <<fs, exc, failure, modes>>
    /\ UNCHANGED <<impl, tool, config, bound, runner, captured, removalFailed, responses>>
    /\ UNCHANGED <<engine_calls, runner_config>>
    /\ UNCHANGED pureVars

\* if config.timeout: runner_config['timeout'] = config.timeout.  The test is of
\* the value's truth, and 0 is not true
TimeoutEntry(cfg) ==
    IF cfg.timeout # {} /\ TheValue(cfg.timeout) # 0 THEN cfg.timeout ELSE {}

\* the keyword arguments of ansible_runner.run, as far as the model follows them
RunnerConfig(cfg) == [private_data_dir |-> RunDir, timeout |-> TimeoutEntry(cfg)]

\* runner_config is assembled; _prepare_runner_config returns, which binds
\* private_data_dir in the client method
PrepareRunnerConfig ==
    /\ pc = "config"
    /\ bound' = TRUE
    /\ runner_config' = RunnerConfig(config)
    /\ pc' = "engine"
    /\ UNCHANGED <<impl, tool, config, fs, exc, failure, runner, captured,
                   removalFailed, responses>>
    /\ UNCHANGED <<modes, engine_calls>>
    /\ UNCHANGED pureVars

\* an engine step that calls the engine again when the call raised
RunEngineRetries ==
    /\ pc = "engine"
    /\ \/ \E rc \in {0, 2}, out \in Opt({"engine stdout"}), err \in Opt({"engine stderr"}),
             evs \in SampleStreams :
             /\ runner' = [rc |-> rc, returned |-> TRUE]
             /\ events' = evs
             /\ fs' = LET f1 == IF out # {} THEN WriteFile(fs, StdoutPath, TheValue(out)) ELSE fs
                      IN  IF err # {} THEN WriteFile(f1, StderrPath, TheValue(err)) ELSE f1
             /\ pc' = "events"
             /\ UNCHANGED <<exc, failure>>
       \/ /\ IF engine_calls < 2
             THEN UNCHANGED <<pc, exc, failure>>
             ELSE Raise("engine failed")
          /\ UNCHANGED <<runner, events, fs>>
    /\ engine_calls' = engine_calls + 1
    /\ UNCHANGED <<impl, tool, config, bound, captured, removalFailed, responses>>
    /\ UNCHANGED <<modes, runner_config>>
    /\ UNCHANGED <<phase, results, task_results, args, module_args, inventory, inventory_data>>
    /\ UNCHANGED <<codecVars, serverVars>>

\* runner = ansible_runner.run(**runner_config)
RunEngine ==
    /\ pc = "engine"
    /\ \/ \E rc \in {0, 2}, out \in Opt({"engine stdout"}), err \in Opt({"engine stderr"}),
             evs \in SampleStreams :
             /\ runner' = [rc |-> rc, returned |-> TRUE]
             /\ events' = evs
             /\ fs' = LET f1 == IF out # {} THEN WriteFile(fs, StdoutPath, TheValue(out)) ELSE fs
                      IN  IF err # {} THEN WriteFile(f1, StderrPath, TheValue(err)) ELSE f1
             /\ pc' = "events"
             /\ UNCHANGED <<exc, failure>>
       \/ Raise("engine failed") /\ UNCHANGED <<runner, events, fs>>
    /\ engine_calls' = engine_calls + 1
    /\ UNCHANGED <<impl, tool, config, bound, captured, removalFailed, responses>>
    /\ UNCHANGED <<modes, runner_config>>
    /\ UNCHANGED <<phase, results, task_results, args, module_args, inventory, inventory_data>>
    /\ UNCHANGED <<codecVars, serverVars>>

\* for event in runner.events
TranslateEvents ==
    /\ pc = "events"
    /\ \/ /\ IF tool = "run_playbook"
             THEN task_results' = ProcessEvents(<<>>, events) /\ UNCHANGED results
             ELSE results' = CollapseResults(EmptyDict, events) /\ UNCHANGED task_results
          /\ pc' = "output"
          /\ UNCHANGED <<exc, failure>>
       \/ Raise("KeyError: event_data") /\ UNCHANGED <<results, task_results>>
    /\ UNCHANGED <<impl, tool, config, fs, bound, runner, captured, removalFailed, responses>>
    /\ UNCHANGED <<modes, engine_calls, runner_config>>
    /\ UNCHANGED <<phase, events, args, module_args, inventory, inventory_data>>
    /\ UNCHANGED <<codecVars, serverVars>>

ReadIfExists(path) == IF Exists(fs, path) THEN fs[path] ELSE ""

\* stdout and stderr are read back.  The handlers test both files for
\* existence and then await ctx.info(...); AnsibleClient opens stdout untested
ReadOutput ==
    /\ pc = "output"
    /\ IF impl = "client" /\ ~Exists(fs, StdoutPath)
       THEN Raise("No such file or directory: stdout") /\ UNCHANGED captured
       ELSE /\ captured' = [stdout |-> ReadIfExists(StdoutPath),
                            stderr |-> ReadIfExists(StderrPath)]
            /\ \/ pc' = "cleanup" /\ UNCHANGED <<exc, failure>>
               \/ impl = "mcp" /\ Raise("ctx.info failed")
    /\ UNCHANGED <<impl, tool, config, fs, bound, runner, removalFailed, responses>>
    /\ UNCHANGED <<modes, engine_calls, runner_config>>
    /\ UNCHANGED pureVars

\* a removal whose failure is raised instead of ignored
CleanupStrict ==
    /\ pc = "cleanup"
    /\ \/ /\ fs' = Rmtree(fs, RunDir)
          /\ modes' = RmtreeModes(modes, RunDir)
          /\ pc' = "return"
          /\ UNCHANGED <<removalFailed, exc, failure>>
       \/ /\ Exists(fs, RunDir)
          /\ removalFailed' = TRUE
          /\ Raise("rmtree failed")
          /\ UNCHANGED <<fs, modes>>
    /\ UNCHANGED <<impl, tool, config, bound, runner, captured, responses>>
    /\ UNCHANGED <<engine_calls, runner_config>>
    /\ UNCHANGED pureVars

\* a removal placed before the output is read back
CleanupThenRead ==
    /\ pc = "cleanup"
    /\ \/ /\ fs' = Rmtree(fs, RunDir)
          /\ modes' = RmtreeModes(modes, RunDir)
          /\ UNCHANGED removalFailed
       \/ Exists(fs, RunDir) /\ removalFailed' = TRUE /\ UNCHANGED <<fs, modes>>
    /\ pc' = IF Exists(fs, RunDir) THEN "output" ELSE "return"
    /\ UNCHANGED <<impl, tool, config, bound, exc, failure, runner, captured, responses>>
    /\ UNCHANGED <<engine_calls, runner_config>>
    /\ UNCHANGED pureVars

\* shutil.rmtree(private_data_dir, ignore_errors=True) after the run
Cleanup ==
    /\ pc = "cleanup"
    /\ \/ /\ fs' = Rmtree(fs, RunDir)
          /\ modes' = RmtreeModes(modes, RunDir)
          /\ UNCHANGED removalFailed
       \/ Exists(fs, RunDir) /\ removalFailed' = TRUE /\ UNCHANGED <<fs, modes>>
    /\ pc' = "return"
    /\ UNCHANGED <<impl, tool, config, bound, exc, failure, runner, captured, responses>>
    /\ UNCHANGED <<engine_calls, runner_config>>
    /\ UNCHANGED pureVars

\* return PlaybookRunResult(...) / AdHocCommandResult(...); building the result
\* validates it
ReturnResult ==
    /\ pc = "return"
    /\ \/ /\ Return(RunResult)
          /\ failure' = IF runner.rc = 0 THEN "none" ELSE "engine_rc"
          /\ UNCHANGED exc
       \/ Raise("result validation failed") /\ UNCHANGED responses
    /\ UNCHANGED <<impl, tool, config, fs, bound, runner, captured, removalFailed>>
    /\ UNCHANGED <<modes, engine_calls, runner_config>>
    /\ UNCHANGED pureVars

\* an except clause that returns the failure without removing anything
HandleExceptionNoCleanup ==
    /\ pc = "except"
    /\ UNCHANGED <<fs, removalFailed>>
    /\ Return(FailureResult(tool, exc))
    /\ UNCHANGED <<impl, tool, config, bound, exc, failure, runner, captured>>
    /\ UNCHANGED <<modes, engine_calls, runner_config>>
    /\ UNCHANGED pureVars

\* except Exception as e: if 'private_data_dir' in locals(): rmtree; return the
\* failure response
HandleException ==
    /\ pc = "except"
    /\ IF tool \in RunTools /\ bound
       THEN \/ /\ fs' = Rmtree(fs, RunDir)
               /\ modes' = RmtreeModes(modes, RunDir)
               /\ UNCHANGED removalFailed
            \/ Exists(fs, RunDir) /\ removalFailed' = TRUE /\ UNCHANGED <<fs, modes>>
       ELSE UNCHANGED <<fs, removalFailed, modes>>
    /\ Return(FailureResult(tool, exc))
    /\ UNCHANGED <<impl, tool, config, bound, exc, failure, runner, captured>>
    /\ UNCHANGED <<engine_calls, runner_config>>
    /\ UNCHANGED pureVars

\* create_inventory: encode, choose the output path, makedirs, dump
CreateInventory ==
    /\ pc = "start"
    /\ tool = "create_inventory"
    /\ \/ \E inv \in {SampleInventory, [hosts |-> <<>>, groups |-> <<>>]},
             path \in Opt({<<"elsewhere", "hosts.yml">>}) :
             LET output_path == IF path # {} THEN TheValue(path) ELSE NewInventoryPath
             IN  /\ fs' = WriteFile(Mkdir(fs, SubSeq(output_path, 1, 1)), output_path,
                                    EncodeInventory(inv))
                 /\ Return([success |-> TRUE, path |-> output_path,
                            message |-> <<"Inventory created successfully at ", output_path>>])
                 /\ UNCHANGED <<exc, failure>>
       \/ Raise("cannot write inventory") /\ UNCHANGED <<fs, responses>>
    /\ UNCHANGED <<impl, tool, config, bound, runner, captured, removalFailed>>
    /\ UNCHANGED <<modes, engine_calls, runner_config>>
    /\ UNCHANGED pureVars

\* a load_inventory that asks the engine for the listing before it looks at the path
LoadInventoryListsFirst ==
    /\ pc = "start"
    /\ tool = "load_inventory"
    /\ engine_calls' = engine_calls + 1
    /\ IF ~Exists(fs, config.path)
       THEN /\ Return([success |-> FALSE,
                       message |-> <<"Inventory file not found: ", config.path>>])
            /\ failure' = "not_found"
            /\ UNCHANGED exc
       ELSE \/ /\ Return([success |-> FALSE,
                           message |-> <<"Failed to load inventory: ", "listing">>])
               /\ failure' = "engine_rc"
               /\ UNCHANGED exc
            \/ /\ Return([success |-> TRUE, inventory |-> "inventory",
                           message |-> <<"Inventory loaded successfully from ",
                                         config.path>>])
               /\ UNCHANGED <<exc, failure>>
            \/ Raise("JSONDecodeError") /\ UNCHANGED responses
    /\ UNCHANGED <<impl, tool, config, fs, bound, runner, captured, removalFailed>>
    /\ UNCHANGED <<modes, runner_config>>
    /\ UNCHANGED pureVars

\* load_inventory: a missing path returns before anything else is done; then
\* ansible_runner.run_command lists the inventory, a non-zero return code
\* returns early, and the listing is parsed and decoded
LoadInventory ==
    /\ pc = "start"
    /\ tool = "load_inventory"
    /\ IF ~Exists(fs, config.path)
       THEN /\ Return([success |-> FALSE,
                       message |-> <<"Inventory file not found: ", config.path>>])
            /\ failure' = "not_found"
            /\ UNCHANGED <<exc, engine_calls>>
       ELSE /\ engine_calls' = engine_calls + 1
            /\ \/ /\ Return([success |-> FALSE,
                              message |-> <<"Failed to load inventory: ", "listing">>])
                  /\ failure' = "engine_rc"
                  /\ UNCHANGED exc
               \/ /\ Return([success |-> TRUE, inventory |-> "inventory",
                              message |-> <<"Inventory loaded successfully from ",
                                            config.path>>])
                  /\ UNCHANGED <<exc, failure>>
               \/ Raise("JSONDecodeError") /\ UNCHANGED responses
    /\ UNCHANGED <<impl, tool, config, fs, bound, runner, captured, removalFailed>>
    /\ UNCHANGED <<modes, runner_config>>
    /\ UNCHANGED pureVars

\* create_playbook: dump the plays, choose the output path, makedirs, write
CreatePlaybook ==
    /\ pc = "start"
    /\ tool = "create_playbook"
    /\ \/ \E path \in Opt({<<"elsewhere", "site.yml">>}) :
             LET output_path == IF path # {} THEN TheValue(path) ELSE NewPlaybookPath
             IN  /\ fs' = WriteFile(Mkdir(fs, SubSeq(output_path, 1, 1)), output_path,
                                    SamplePlaybook)
                 /\ Return([success |-> TRUE, path |-> output_path,
                            message |-> <<"Playbook created successfully at ", output_path>>])
                 /\ UNCHANGED <<exc, failure>>
       \/ Raise("cannot write playbook") /\ UNCHANGED <<fs, responses>>
    /\ UNCHANGED <<impl, tool, config, bound, runner, captured, removalFailed>>
    /\ UNCHANGED <<modes, engine_calls, runner_config>>
    /\ UNCHANGED pureVars

\* load_playbook: a missing path returns before the file is opened
LoadPlaybook ==
    /\ pc = "start"
    /\ tool = "load_playbook"
    /\ IF ~Exists(fs, config.path)
       THEN /\ Return([success |-> FALSE,
                       message |-> <<"Playbook file not found: ", config.path>>])
            /\ failure' = "not_found"
            /\ UNCHANGED exc
       ELSE \/ /\ Return([success |-> TRUE, playbook |-> fs[config.path],
                           message |-> <<"Playbook loaded successfully from ",
                                         config.path>>])
               /\ UNCHANGED <<exc, failure>>
            \/ Raise("YAMLError") /\ UNCHANGED responses
    /\ UNCHANGED <<impl, tool, config, fs, bound, runner, captured, removalFailed>>
    /\ UNCHANGED <<modes, engine_calls, runner_config>>
    /\ UNCHANGED pureVars

\* get_ssh_keys: a missing ~/.ssh is reported as a success with no keys
GetSshKeys ==
    /\ pc = "start"
    /\ tool = "get_ssh_keys"
    /\ \/ /\ Return([success |-> TRUE, keys |-> <<>>, message |-> "SSH directory not found"])
          /\ UNCHANGED <<exc, failure>>
       \/ \E keys \in {<<>>, <<"id_rsa">>} :
             /\ Return([success |-> TRUE, keys |-> keys, message |-> <<"Found SSH keys", Len(keys)>>])
             /\ UNCHANGED <<exc, failure>>
       \/ Raise("ValidationError: SSHKeyInfo") /\ UNCHANGED responses
    /\ UNCHANGED <<impl, tool, config, fs, bound, runner, captured, removalFailed>>
    /\ UNCHANGED <<modes, engine_calls, runner_config>>
    /\ UNCHANGED pureVars

\* list_playbooks / list_inventories: a missing directory returns early
ListFiles(t, dir, field) ==
    /\ pc = "start"
    /\ tool = t
    /\ \/ \E directory \in {dir, MissingPath} :
             IF ~Exists(fs, directory)
             THEN /\ Return([success |-> FALSE,
                             message |-> <<"Directory not found: ", directory>>])
                  /\ failure' = "not_found"
                  /\ UNCHANGED exc
             ELSE /\ Return([k \in {"success", "message", field} |->
                                CASE k = "success" -> TRUE
                                  [] k = "message" -> <<"Found", directory>>
                                  [] OTHER -> {q \in DOMAIN fs : IsPrefix(directory, q)
                                                                  /\ q # directory}])
                  /\ UNCHANGED <<exc, failure>>
       \/ Raise("OSError") /\ UNCHANGED responses
    /\ UNCHANGED <<impl, tool, config, fs, bound, runner, captured, removalFailed>>
    /\ UNCHANGED <<modes, engine_calls, runner_config>>
    /\ UNCHANGED pureVars

ListPlaybooks == ListFiles("list_playbooks", <<"playbooks">>, "playbooks")

ListInventories == ListFiles("list_inventories", <<"inventory">>, "inventories")

----------------------------------------------------------------------------
(* The values the call variables hold while only a translation is studied *)

CallIdle ==
    /\ impl = "none"
    /\ tool = "none"
    /\ pc = "idle"
    /\ config = EmptyDict
    /\ fs = EmptyDict
    /\ bound = FALSE
    /\ exc = NoExc
    /\ failure = "none"
    /\ runner = NoRunner
    /\ captured = EmptyDict
    /\ removalFailed = FALSE
    /\ responses = <<>>
    /\ modes = EmptyDict
    /\ engine_calls = 0
    /\ runner_config = EmptyDict

\* the values the codec and registry variables hold while they are not studied
CodecIdle ==
    /\ loaded_inventory = EmptyDict
    /\ playbook = <<>>
    /\ playbook_data = <<>>
    /\ loaded_playbook = <<>>
    /\ tools = EmptyDict
    /\ registered = <<>>

\* the values the listing, session and lifespan variables hold while they are not
\* studied
ServerIdle ==
    /\ listing = <<>>
    /\ sessions = <<>>
    /\ lifespan = EmptyDict

----------------------------------------------------------------------------
(* SpecAdHoc: run_ad_hoc_command consumes the events as the engine produces them *)

InitAdHoc ==
    /\ CallIdle
    /\ ServerIdle
    /\ phase = "adhoc"
    /\ events = <<>>
    /\ results = EmptyDict
    /\ task_results = <<>>
    /\ args = <<>>
    /\ module_args = <<>>
    /\ inventory = EmptyDict
    /\ inventory_data = EmptyDict
    /\ CodecIdle

AdHocEvent ==
    /\ phase = "adhoc"
    /\ Len(events) < MaxAdHocEvents
    /\ \E e \in AdHocEvents(Len(events) + 1) :
          /\ events' = Append(events, e)
          /\ results' = AdHocStep(results, e)
    /\ UNCHANGED <<phase, task_results, args, module_args, inventory, inventory_data>>
    /\ UNCHANGED <<codecVars, serverVars>>
    /\ UNCHANGED callVars

NextAdHoc == AdHocEvent

SpecAdHoc == InitAdHoc /\ [][NextAdHoc]_vars

(* SpecEvents: run_playbook consumes the events as the engine produces them *)

InitEvents ==
    /\ CallIdle
    /\ ServerIdle
    /\ phase = "playbook"
    /\ events = <<>>
    /\ results = EmptyDict
    /\ task_results = <<>>
    /\ args = <<>>
    /\ module_args = <<>>
    /\ inventory = EmptyDict
    /\ inventory_data = EmptyDict
    /\ CodecIdle

PlaybookEvent ==
    /\ phase = "playbook"
    /\ Len(events) < MaxPlaybookEvents
    /\ \E e \in PlaybookEvents(Len(events) + 1) :
          /\ events' = Append(events, e)
          /\ task_results' = ProcessEvent(task_results, e)
    /\ UNCHANGED <<phase, results, args, module_args, inventory, inventory_data>>
    /\ UNCHANGED <<codecVars, serverVars>>
    /\ UNCHANGED callVars

NextEvents == PlaybookEvent

SpecEvents == InitEvents /\ [][NextEvents]_vars

----------------------------------------------------------------------------
(* Claims about the event stream *)

Recorded(e) == e.event \in {"runner_on_ok", "runner_on_failed", "runner_on_unreachable"}

HasHost(e) == "host" \in DOMAIN e.event_data

\* the positions of the stream whose event is recorded for host h
RecordedFor(h) ==
    {i \in 1..Len(events) :
        Recorded(events[i]) /\ HasHost(events[i]) /\ events[i].event_data.host = h}

MaxOf(S) == CHOOSE m \in S : \A x \in S : x <= m

ResOf(e) == IF "res" \in DOMAIN e.event_data THEN e.event_data.res ELSE EmptyDict

\* C5: the results mapping of an ad-hoc run holds, for every host, the payload of
\* the last ok / failed / unreachable event of that host in stream order, and has
\* no entry for a host without such an event; other kinds change nothing.
AdHocLastWriteWins ==
    phase = "adhoc" =>
        /\ DOMAIN results = {h \in {"h1", "h2"} : RecordedFor(h) # {}}
        /\ \A h \in DOMAIN results : results[h] = ResOf(events[MaxOf(RecordedFor(h))])

\* ok, ok, failed for h1, each with its own payload: only the failed payload is left
AdHocOkOkFailedWitness ==
    /\ phase = "adhoc"
    /\ Len(events) = 3
    /\ \A i \in 1..3 : HasHost(events[i]) /\ events[i].event_data.host = "h1"
    /\ \A i \in 1..3 : "res" \in DOMAIN events[i].event_data
    /\ events[1].event = "runner_on_ok"
    /\ events[2].event = "runner_on_ok"
    /\ events[3].event = "runner_on_failed"
    /\ results = [h \in {"h1"} |-> Payload(3)]

Recognised(e) == e.event \in {"runner_on_ok", "runner_on_changed", "runner_on_failed",
                              "runner_on_skipped", "runner_on_unreachable"}

\* the positions of the recognised events, in stream order
RecognisedAt ==
    SelectSeq([i \in 1..Len(events) |-> i], LAMBDA i : Recognised(events[i]))

ChangedOf(e) == IF "changed" \in DOMAIN e.event_data THEN e.event_data.changed ELSE FALSE

\* C6: each TaskResult carries the status, changed flag and payload the table of
\* event kinds gives for the event it was made from.
EventMapping ==
    phase = "playbook" =>
        \A k \in 1..Len(task_results) :
            k <= Len(RecognisedAt) =>
                LET e == events[RecognisedAt[k]]
                    r == task_results[k]
                IN  CASE e.event = "runner_on_ok" ->
                           r.status = "ok" /\ r.changed = ChangedOf(e) /\ r.result = ResOf(e)
                      [] e.event = "runner_on_changed" ->
                           r.status = "changed" /\ r.changed = TRUE /\ r.result = ResOf(e)
                      [] e.event = "runner_on_failed" ->
                           r.status = "failed" /\ r.changed = ChangedOf(e) /\ r.result = ResOf(e)
                      [] e.event = "runner_on_skipped" ->
                           r.status = "skipped" /\ r.changed = FALSE /\ r.result = EmptyDict
                      [] e.event = "runner_on_unreachable" ->
                           r.status = "unreachable" /\ r.changed = FALSE /\ r.result = ResOf(e)

\* a skipped event that carried a payload and changed=true, and a changed event
\* whose payload said changed=false, have both been translated
EventMappingWitness ==
    /\ phase = "playbook"
    /\ Len(events) = 2
    /\ events[1].event = "runner_on_skipped"
    /\ "res" \in DOMAIN events[1].event_data
    /\ ChangedOf(events[1]) = TRUE
    /\ events[2].event = "runner_on_changed"
    /\ "changed" \in DOMAIN events[2].event_data
    /\ ChangedOf(events[2]) = FALSE
    /\ Len(task_results) = 2
    /\ task_results[1].result = EmptyDict
    /\ task_results[2].changed = TRUE

\* C7: task_results is the stream filtered to the five recognised kinds, one
\* entry per such event, in stream order; repeats are kept, other kinds add nothing.
TaskResultsAreFilteredStream ==
    phase = "playbook" =>
        /\ Len(task_results) = Len(RecognisedAt)
        /\ \A k \in 1..Len(task_results) :
              LET e == events[RecognisedAt[k]]
              IN  /\ task_results[k].task_name = DictGet(e.event_data, "task", "unnamed task")
                  /\ task_results[k].host = DictGet(e.event_data, "host", "")
                  /\ task_results[k].result \in {EmptyDict, Payload(RecognisedAt[k])}

\* the same (task, host) pair ran twice beside an unrecognised event
TaskResultsRepeatWitness ==
    /\ phase = "playbook"
    /\ Len(events) = 2
    /\ events[1] = Event("runner_on_ok", {"t1"}, {"h1"}, {}, {Payload(1)})
    /\ events[2] = Event("runner_on_ok", {"t1"}, {"h1"}, {}, {Payload(2)})
    /\ Len(task_results) = 2
    /\ task_results[1].task_name = task_results[2].task_name
    /\ task_results[1].host = task_results[2].host

----------------------------------------------------------------------------
(* SpecArgs: run_ad_hoc_command serialises the argument mapping *)

InitArgs ==
    /\ CallIdle
    /\ ServerIdle
    /\ phase = "args"
    /\ events = <<>>
    /\ results = EmptyDict
    /\ task_results = <<>>
    /\ args \in ArgMappings
    /\ module_args = <<>>
    /\ inventory = EmptyDict
    /\ inventory_data = EmptyDict
    /\ CodecIdle

SerialiseArgs ==
    /\ phase = "args"
    /\ module_args' = ModuleArgs(args)
    /\ phase' = "args_done"
    /\ UNCHANGED <<events, results, task_results, args, inventory, inventory_data>>
    /\ UNCHANGED <<codecVars, serverVars>>
    /\ UNCHANGED callVars

NextArgs == SerialiseArgs

SpecArgs == InitArgs /\ [][NextArgs]_vars

\* the token the claim gives for one argument
ArgToken(key, value) ==
    key \o <<"=">> \o
        CASE value.type = "bool" -> IF value.bool THEN <<"y", "e", "s">> ELSE <<"n", "o">>
          [] value.type \in {"int", "float"} -> Format(value)
          [] OTHER -> <<"'">> \o Format(value) \o <<"'">>

RECURSIVE JoinTokens(_)
\* the tokens separated by single spaces
JoinTokens(items) ==
    IF items = <<>> THEN <<>>
    ELSE IF Len(items) = 1 THEN ArgToken(items[1][1], items[1][2])
    ELSE ArgToken(items[1][1], items[1][2]) \o <<" ">> \o JoinTokens(Tail(items))

\* C8: module_args is the key=value tokens of the mapping in mapping order,
\* separated by single spaces, with no leading or trailing space; a boolean gives
\* yes / no, a number its literal, anything else its text in single quotes; the
\* empty mapping gives the empty string.
ModuleArgsSerialisation ==
    phase = "args_done" =>
        /\ module_args = JoinTokens(args)
        /\ args = <<>> => module_args = <<>>
        /\ module_args # <<>> =>
              module_args[1] \notin Whitespace /\ module_args[Len(module_args)] \notin Whitespace

\* {name: nginx, state: started} has been serialised as name='nginx' state='started'
ModuleArgsWitness ==
    /\ phase = "args_done"
    /\ args = << <<(<<"n", "a", "m", "e">>), StrVal(<<"n", "g", "i", "n", "x">>)>>,
                 <<(<<"s", "t", "a", "t", "e">>), StrVal(<<"s", "t", "a", "r", "t", "e", "d">>)>> >>
    /\ module_args = <<"n", "a", "m", "e", "=", "'", "n", "g", "i", "n", "x", "'", " ",
                       "s", "t", "a", "t", "e", "=", "'", "s", "t", "a", "r", "t", "e", "d", "'">>

----------------------------------------------------------------------------
(* SpecInventory: an inventory value is encoded *)

InitInventory ==
    /\ CallIdle
    /\ ServerIdle
    /\ phase = "inventory"
    /\ events = <<>>
    /\ results = EmptyDict
    /\ task_results = <<>>
    /\ args = <<>>
    /\ module_args = <<>>
    /\ inventory \in Inventories
    /\ inventory_data = EmptyDict
    /\ CodecIdle

Encode ==
    /\ phase = "inventory"
    /\ inventory_data' = EncodeInventory(inventory)
    /\ phase' = "encoded"
    /\ UNCHANGED <<events, results, task_results, args, module_args, inventory>>
    /\ UNCHANGED <<codecVars, serverVars>>
    /\ UNCHANGED callVars

NextInventory == Encode

SpecInventory == InitInventory /\ [][NextInventory]_vars

\* InventoryHost.name is the key of a host within an Inventory
UniqueHostNames ==
    \A i, j \in 1..Len(inventory.hosts) :
        i # j => inventory.hosts[i].name # inventory.hosts[j].name

\* the host entries listed under group g of the encoded mapping
HostsUnder(data, g) ==
    IF g \in DOMAIN data /\ "hosts" \in DOMAIN data[g] THEN data[g]["hosts"] ELSE EmptyDict

\* C9: every host that declares no group is listed, with its variables, under
\* ungrouped and under no other group, whatever explicit groups there are.
UngroupedHostsEncoded ==
    (phase = "encoded" /\ UniqueHostNames) =>
        \A i \in 1..Len(inventory.hosts) :
            LET host == inventory.hosts[i]
            IN  host.groups = <<>> =>
                    /\ host.name \in DOMAIN HostsUnder(inventory_data, "ungrouped")
                    /\ HostsUnder(inventory_data, "ungrouped")[host.name] = host.variables
                    /\ \A g \in DOMAIN inventory_data :
                          g # "ungrouped" => host.name \notin DOMAIN HostsUnder(inventory_data, g)

\* an ungrouped host with variables beside an explicit group named ungrouped
\* that carries variables and children
UngroupedWitness ==
    /\ phase = "encoded"
    /\ UniqueHostNames
    /\ \E i \in 1..Len(inventory.hosts) :
          /\ inventory.hosts[i].groups = <<>>
          /\ inventory.hosts[i].variables # EmptyDict
          /\ inventory.hosts[i].name \in DOMAIN HostsUnder(inventory_data, "ungrouped")
    /\ \E j \in 1..Len(inventory.groups) :
          /\ inventory.groups[j].name = "ungrouped"
          /\ inventory.groups[j].variables # EmptyDict
          /\ inventory.groups[j].children # <<>>
    /\ "vars" \in DOMAIN inventory_data["ungrouped"]

\* the mapping as it stands when the hosts, and no explicit group, have been processed
AfterHosts == ProcessHosts(EmptyDict, inventory.hosts)

\* C10: every host that declares groups is listed, with its variables, under each
\* group it declares and under no other; an explicit group only adds its vars and
\* children keys (each child with an empty value) and leaves the host entries alone.
GroupedHostsEncoded ==
    (phase = "encoded" /\ UniqueHostNames) =>
        /\ \A i \in 1..Len(inventory.hosts) :
              LET host == inventory.hosts[i]
              IN  host.groups # <<>> =>
                      \A g \in DOMAIN inventory_data \cup SeqRange(host.groups) :
                          IF g \in SeqRange(host.groups)
                          THEN /\ host.name \in DOMAIN HostsUnder(inventory_data, g)
                               /\ HostsUnder(inventory_data, g)[host.name] = host.variables
                          ELSE host.name \notin DOMAIN HostsUnder(inventory_data, g)
        /\ \A g \in DOMAIN AfterHosts :
              /\ g \in DOMAIN inventory_data
              /\ "hosts" \in DOMAIN inventory_data[g]
              /\ inventory_data[g]["hosts"] = AfterHosts[g]["hosts"]
        /\ \A g \in DOMAIN inventory_data :
              /\ g \notin DOMAIN AfterHosts => "hosts" \notin DOMAIN inventory_data[g]
              /\ DOMAIN inventory_data[g] \subseteq {"hosts", "vars", "children"}
              /\ "vars" \in DOMAIN inventory_data[g] =>
                    \E j \in 1..Len(inventory.groups) :
                        /\ inventory.groups[j].name = g
                        /\ inventory.groups[j].variables = inventory_data[g]["vars"]
              /\ "children" \in DOMAIN inventory_data[g] =>
                    /\ DOMAIN inventory_data[g]["children"] =
                          UNION {SeqRange(inventory.groups[j].children) :
                                    j \in {x \in 1..Len(inventory.groups) :
                                              inventory.groups[x].name = g}}
                    /\ \A c \in DOMAIN inventory_data[g]["children"] :
                          inventory_data[g]["children"][c] = EmptyDict
        /\ \A j \in 1..Len(inventory.groups) :
              LET group == inventory.groups[j]
              IN  /\ group.name \in DOMAIN inventory_data
                  /\ group.variables # EmptyDict => "vars" \in DOMAIN inventory_data[group.name]
                  /\ group.children # <<>> => "children" \in DOMAIN inventory_data[group.name]

\* web1 in [web] and db1 in [] encode to {web: {hosts: {web1: {}}}, ungrouped: {hosts: {db1: {}}}}
EncodeScenarioWitness ==
    /\ phase = "encoded"
    /\ inventory = [hosts |-> <<[name |-> "web1", variables |-> EmptyDict, groups |-> <<"web">>],
                                [name |-> "db1", variables |-> EmptyDict, groups |-> <<>>]>>,
                    groups |-> <<>>]
    /\ inventory_data = [g \in {"web", "ungrouped"} |->
                            [k \in {"hosts"} |->
                                [h \in {IF g = "web" THEN "web1" ELSE "db1"} |-> EmptyDict]]]

----------------------------------------------------------------------------
(* Spec: one tool call from request to response *)

Init ==
    /\ impl = "none"
    /\ tool = "none"
    /\ pc = "idle"
    /\ config = EmptyDict
    /\ fs = CallFs
    /\ bound = FALSE
    /\ exc = NoExc
    /\ failure = "none"
    /\ runner = NoRunner
    /\ captured = EmptyDict
    /\ removalFailed = FALSE
    /\ responses = <<>>
    /\ modes = EmptyDict
    /\ engine_calls = 0
    /\ runner_config = EmptyDict
    /\ phase = "call"
    /\ events = <<>>
    /\ results = EmptyDict
    /\ task_results = <<>>
    /\ args = <<>>
    /\ module_args = <<>>
    /\ inventory = EmptyDict
    /\ inventory_data = EmptyDict
    /\ CodecIdle
    /\ ServerIdle

Next ==
    \/ Call
    \/ Preparing
    \/ CreateRunDir
    \/ PrepareInventory
    \/ PreparePlaybook
    \/ SetupSshKeys
    \/ PrepareRunnerConfig
    \/ RunEngine
    \/ TranslateEvents
    \/ ReadOutput
    \/ Cleanup
    \/ ReturnResult
    \/ HandleException
    \/ CreateInventory
    \/ LoadInventory
    \/ CreatePlaybook
    \/ LoadPlaybook
    \/ GetSshKeys
    \/ ListPlaybooks
    \/ ListInventories

Spec == Init /\ [][Next]_vars

CallEnded == pc \in {"done", "crashed"}

\* C1: when a run_playbook / run_ad_hoc_command handler of mcp_server.py returns,
\* whatever the outcome of the run, the run's private directory does not exist
\* (provided the removal itself met no error).
McpRunDirRemoved ==
    (impl = "mcp" /\ tool \in RunTools /\ CallEnded /\ ~removalFailed) =>
        ~Exists(fs, RunDir)

\* a handler has returned after the key copy failed inside the directory it had made
McpRunDirRemovedWitness ==
    /\ impl = "mcp"
    /\ tool \in RunTools
    /\ pc = "done"
    /\ exc = "No such file or directory: private key"
    /\ ~removalFailed
    /\ ~Exists(fs, RunDir)
    /\ Len(responses) = 1

\* C2: an exception raised while a run is configured, executed, translated or
\* read back never leaves the operation: the operation returns success=false,
\* empty stats / results, empty stdout and the exception's message as stderr.
RunExceptionsBecomeResults ==
    (phase = "call" /\ tool \in RunTools) =>
        /\ pc # "crashed"
        /\ (pc = "done" /\ exc # NoExc) =>
              /\ Len(responses) = 1
              /\ responses[1] =
                    IF tool = "run_playbook"
                    THEN [success |-> FALSE, stats |-> EmptyDict, task_results |-> <<>>,
                          stdout |-> "", stderr |-> exc]
                    ELSE [success |-> FALSE, results |-> EmptyDict, stdout |-> "",
                          stderr |-> exc]

\* the engine call of a client run raised after the directory had been made
RunExceptionWitness ==
    /\ impl = "client"
    /\ tool = "run_ad_hoc_command"
    /\ pc = "done"
    /\ exc = "engine failed"
    /\ Len(responses) = 1
    /\ responses[1].stderr = "engine failed"

HasMessage(r) == "message" \in DOMAIN r \/ "stderr" \in DOMAIN r

MessageOf(r) == IF "message" \in DOMAIN r THEN r.message ELSE r.stderr

\* C3: a tool call returns no response before it ends and exactly one when it
\* ends; a call that failed answers success=false with a message, and a call that
\* raised or found its source missing names the cause in that message.
OneTerminalResponse ==
    phase = "call" =>
        /\ ~CallEnded => responses = <<>>
        /\ CallEnded =>
              /\ Len(responses) = 1
              /\ responses[1].success \in BOOLEAN
              /\ HasMessage(responses[1])
              /\ responses[1].success <=> failure = "none"
              /\ failure = "exception" =>
                    \/ MessageOf(responses[1]) = exc
                    \/ MessageOf(responses[1])[2] = exc
              /\ failure = "not_found" => MessageOf(responses[1])[2] = MissingPath

\* get_ssh_keys raised inside its try block and answered with one failure
\* response
OneTerminalResponseWitness ==
    /\ impl = "mcp"
    /\ tool = "get_ssh_keys"
    /\ pc = "done"
    /\ failure = "exception"
    /\ Len(responses) = 1
    /\ ~responses[1].success

\* C4: after AnsibleClient.run_playbook / run_ad_hoc_command returns, the
\* directory run_<id> made by _prepare_runner_config does not exist (provided
\* the removal itself met no error).
ClientRunDirRemoved ==
    (impl = "client" /\ tool \in RunTools /\ CallEnded /\ ~removalFailed) =>
        ~Exists(fs, RunDir)

----------------------------------------------------------------------------
(* SpecRoundTrip: an inventory value is encoded, listed by the engine and decoded *)

\* an enumeration of a set: the order in which the engine prints a JSON object
\* or list is its own
SetToSeq(S) == CHOOSE q \in [1..Cardinality(S) -> S] : {q[i] : i \in DOMAIN q} = S

\* what "ansible-inventory --list --export" prints for the dumped mapping, in
\* the shape of ansible_runner.run_command's output: every group of the file
\* with its hosts as a list of names, its vars and the names of its children;
\* "all" with the group names; and, when the engine prints it, _meta.hostvars
\* with the variables of every host.  A JSON object is the sequence of its
\* <<key, value>> pairs in document order
ListedGroup(entry) ==
    [k \in DOMAIN entry |->
        CASE k = "hosts" -> SetToSeq(DOMAIN entry["hosts"])
          [] k = "children" -> SetToSeq(DOMAIN entry["children"])
          [] OTHER -> entry[k]]

ListedHostvars(data) ==
    LET names == SetToSeq(UNION {DOMAIN HostsUnder(data, g) : g \in DOMAIN data})
    IN  [i \in DOMAIN names |->
            LET g == CHOOSE x \in DOMAIN data : names[i] \in DOMAIN HostsUnder(data, x)
            IN  <<names[i], data[g]["hosts"][names[i]]>>]

Listing(data, meta) ==
    LET names == SetToSeq(DOMAIN data)
        groups == [i \in DOMAIN names |-> <<names[i], ListedGroup(data[names[i]])>>]
        all == <<<<"all", [children |-> names]>>>> \o groups
    IN  IF meta THEN Append(all, <<"_meta", [hostvars |-> ListedHostvars(data)]>>) ELSE all

\* a test that takes only _meta for structural
IsStructuralMetaOnly(group_name) == group_name = "_meta"

\* if group_name in ['_meta', 'all']: continue
IsStructural(group_name) == group_name \in {"_meta", "all"}

\* for host_name in group_data['hosts']: all_hosts.add(host_name);
\* host_groups[host_name].append(group_name)
RECURSIVE ScanHosts(_, _, _)

ScanHosts(acc, group_name, names) ==
    IF names = <<>> THEN acc
    ELSE LET host_name == Head(names)
             so_far == DictGet(acc.host_groups, host_name, <<>>)
         IN  ScanHosts([acc EXCEPT
                           !.all_hosts = @ \cup {host_name},
                           !.host_groups = DictPut(@, host_name, Append(so_far, group_name))],
                       group_name, Tail(names))

\* one pass of the loop over inventory_json.items() for a group that is not
\* skipped: its hosts are scanned and an InventoryGroup is appended
ScanGroup(acc, group_name, group_data) ==
    LET scanned == IF "hosts" \in DOMAIN group_data
                   THEN ScanHosts(acc, group_name, group_data["hosts"])
                   ELSE acc
    IN  [scanned EXCEPT
            !.groups = Append(@, [name |-> group_name,
                                  variables |-> DictGet(group_data, "vars", EmptyDict),
                                  children |-> DictGet(group_data, "children", <<>>)])]

\* for group_name, group_data in inventory_json.items()
RECURSIVE ScanGroups(_, _)

ScanGroups(acc, entries) ==
    IF entries = <<>> THEN acc
    ELSE LET group_name == Head(entries)[1]
             group_data == Head(entries)[2]
         IN  ScanGroups(IF IsStructural(group_name) THEN acc
                        ELSE ScanGroup(acc, group_name, group_data),
                        Tail(entries))

\* all_hosts, host_groups and inventory.groups after the loop
Scanned(inventory_json) ==
    ScanGroups([all_hosts |-> {}, host_groups |-> EmptyDict, groups |-> <<>>],
               inventory_json)

\* '_meta' in inventory_json and 'hostvars' in inventory_json['_meta']
HasHostvars(inventory_json) ==
    \E i \in DOMAIN inventory_json :
        inventory_json[i][1] = "_meta" /\ "hostvars" \in DOMAIN inventory_json[i][2]

\* inventory_json['_meta']['hostvars'].items()
Hostvars(inventory_json) ==
    inventory_json[CHOOSE i \in DOMAIN inventory_json :
                      inventory_json[i][1] = "_meta"][2]["hostvars"]

\* the orders in which "for host_name in all_hosts" can visit the set
Orders(S) == {q \in [1..Cardinality(S) -> S] : {q[i] : i \in DOMAIN q} = S}

\* load_inventory from json.loads on: the Inventory built from the listing.
\* With _meta.hostvars there is one host per hostvars key, in its order;
\* without, one host per member of all_hosts, visited in the order given
DecodeInventory(inventory_json, order) ==
    LET scanned == Scanned(inventory_json)
        hostvars == Hostvars(inventory_json)
    IN  [hosts |-> IF HasHostvars(inventory_json)
                   THEN [i \in DOMAIN hostvars |->
                            [name |-> hostvars[i][1], variables |-> hostvars[i][2],
                             groups |-> DictGet(scanned.host_groups, hostvars[i][1], <<>>)]]
                   ELSE [i \in DOMAIN order |->
                            [name |-> order[i], variables |-> EmptyDict,
                             groups |-> DictGet(scanned.host_groups, order[i], <<>>)]],
         groups |-> scanned.groups]

RoundTripHosts ==
    [name : {"web1", "db1"}, variables : HostVariables, groups : {<<>>, <<"web">>}]

RoundTripGroups == [name : {"web"}, variables : GroupVariables, children : {<<>>, <<"db">>}]

RoundTripInventories ==
    [hosts : SeqsUpTo(RoundTripHosts, MaxHosts), groups : SeqsUpTo(RoundTripGroups, MaxGroups)]

InitRoundTrip ==
    /\ CallIdle
    /\ ServerIdle
    /\ phase = "inventory"
    /\ events = <<>>
    /\ results = EmptyDict
    /\ task_results = <<>>
    /\ args = <<>>
    /\ module_args = <<>>
    /\ inventory \in RoundTripInventories
    /\ inventory_data = EmptyDict
    /\ CodecIdle

\* the engine lists the file create_inventory wrote
List ==
    /\ phase = "encoded"
    /\ \E meta \in BOOLEAN : listing' = Listing(inventory_data, meta)
    /\ phase' = "listed"
    /\ UNCHANGED <<events, results, task_results, args, module_args, inventory,
                   inventory_data>>
    /\ UNCHANGED codecVars
    /\ UNCHANGED <<sessions, lifespan>>
    /\ UNCHANGED callVars

\* load_inventory decodes the listing
Decode ==
    /\ phase = "listed"
    /\ \E order \in Orders(Scanned(listing).all_hosts) :
          loaded_inventory' = DecodeInventory(listing, order)
    /\ phase' = "decoded"
    /\ UNCHANGED <<events, results, task_results, args, module_args, inventory,
                   inventory_data>>
    /\ UNCHANGED <<playbook, playbook_data, loaded_playbook, tools, registered>>
    /\ UNCHANGED serverVars
    /\ UNCHANGED callVars

NextRoundTrip == Encode \/ List \/ Decode

SpecRoundTrip == InitRoundTrip /\ [][NextRoundTrip]_vars

UniqueGroupNames ==
    \A i, j \in 1..Len(inventory.groups) :
        i # j => inventory.groups[i].name # inventory.groups[j].name

\* C11: encode then decode gives back the same host names, for every host the
\* groups it declared (none for a host that declared none) and for every
\* explicit group its variables.
InventoryRoundTrip ==
    (phase = "decoded" /\ UniqueHostNames /\ UniqueGroupNames) =>
        /\ {h.name : h \in SeqRange(loaded_inventory.hosts)} =
              {inventory.hosts[i].name : i \in 1..Len(inventory.hosts)}
        /\ \A i \in 1..Len(inventory.hosts) :
              \A h \in SeqRange(loaded_inventory.hosts) :
                  h.name = inventory.hosts[i].name =>
                      SeqRange(h.groups) = SeqRange(inventory.hosts[i].groups)
        /\ \A i \in 1..Len(inventory.groups) :
              \E g \in SeqRange(loaded_inventory.groups) :
                  /\ g.name = inventory.groups[i].name
                  /\ g.variables = inventory.groups[i].variables

----------------------------------------------------------------------------
(* SpecListing: load_inventory decodes any listing the engine may print        *)

MaxListing == 3

ListedNames == {"web", "db"}

\* the bodies of a listed group: hosts, vars and children are each optional
ListedGroupData ==
    {EmptyDict,
     [hosts |-> <<"h1">>],
     [hosts |-> <<"h1", "h2">>, vars |-> [http_port |-> 80]],
     [hosts |-> <<"h2">>, children |-> <<"db">>],
     [vars |-> [http_port |-> 80], children |-> <<"db">>]}

\* the bodies of _meta: without hostvars, or with hostvars for none, some or
\* all of the listed hosts, or for a host no group lists
ListedMeta ==
    {EmptyDict,
     [hostvars |-> <<>>],
     [hostvars |-> <<<<"h1", [ansible_host |-> "10.0.0.1"]>>>>],
     [hostvars |-> <<<<"h2", EmptyDict>>, <<"h1", [ansible_host |-> "10.0.0.1"]>>>>],
     [hostvars |-> <<<<"h3", EmptyDict>>>>]}

ListingEntries ==
    (ListedNames \X ListedGroupData) \cup ({"_meta"} \X ListedMeta)
        \cup {<<"all", [children |-> <<"web", "db">>]>>}

\* a JSON object has each key once
UniqueKeys(obj) == \A i, j \in DOMAIN obj : i # j => obj[i][1] # obj[j][1]

InitListing ==
    /\ CallIdle
    /\ phase = "listed"
    /\ events = <<>>
    /\ results = EmptyDict
    /\ task_results = <<>>
    /\ args = <<>>
    /\ module_args = <<>>
    /\ inventory = EmptyDict
    /\ inventory_data = EmptyDict
    /\ CodecIdle
    /\ \E n \in 0..MaxListing :
          /\ listing \in [1..n -> ListingEntries]
          /\ UniqueKeys(listing)
    /\ sessions = <<>>
    /\ lifespan = EmptyDict

NextListing == Decode

SpecListing == InitListing /\ [][NextListing]_vars

IsGroupEntry(e) == e[1] \notin {"_meta", "all"}

\* the entries of the listing that are groups, in listing order
ListedGroups == SelectSeq(listing, IsGroupEntry)

\* the names of the groups whose hosts entry lists h, in listing order
GroupsListing(h) ==
    LET Lists(e) == "hosts" \in DOMAIN e[2] /\ h \in SeqRange(e[2]["hosts"])
        with == SelectSeq(ListedGroups, Lists)
    IN  [i \in DOMAIN with |-> with[i][1]]

\* C26: for any listing, the decoded groups are the listing's keys other than
\* _meta and all, one group each, in listing order, with the key's vars and
\* children (empty when absent); each decoded host's groups are exactly the
\* groups whose hosts entry lists it; "all" is never reported.
DecodedGroupsAndMembership ==
    phase = "decoded" =>
        /\ Len(loaded_inventory.groups) = Len(ListedGroups)
        /\ \A i \in DOMAIN ListedGroups :
              LET data == ListedGroups[i][2]
                  group == loaded_inventory.groups[i]
              IN  /\ group.name = ListedGroups[i][1]
                  /\ group.variables =
                        (IF "vars" \in DOMAIN data THEN data["vars"] ELSE EmptyDict)
                  /\ group.children =
                        (IF "children" \in DOMAIN data THEN data["children"] ELSE <<>>)
        /\ \A j \in DOMAIN loaded_inventory.hosts :
              /\ loaded_inventory.hosts[j].groups =
                    GroupsListing(loaded_inventory.hosts[j].name)
              /\ "all" \notin SeqRange(loaded_inventory.hosts[j].groups)

\* a listing with all and two groups that share a host has been decoded
DecodedGroupsWitness ==
    /\ phase = "decoded"
    /\ inventory = EmptyDict
    /\ \E i \in DOMAIN listing : listing[i][1] = "all"
    /\ Len(loaded_inventory.groups) = 2
    /\ \E j \in DOMAIN loaded_inventory.hosts : Len(loaded_inventory.hosts[j].groups) = 2

\* the hosts listed under some group of the listing
ListedHosts ==
    UNION {SeqRange(ListedGroups[i][2]["hosts"]) :
              i \in {k \in DOMAIN ListedGroups : "hosts" \in DOMAIN ListedGroups[k][2]}}

\* the variables _meta.hostvars holds for h, none when it has no entry for h
HostvarsOf(h) ==
    IF HasHostvars(listing) /\ \E i \in DOMAIN Hostvars(listing) : Hostvars(listing)[i][1] = h
    THEN Hostvars(listing)[CHOOSE i \in DOMAIN Hostvars(listing) :
                              Hostvars(listing)[i][1] = h][2]
    ELSE EmptyDict

\* C27: for any listing, with or without _meta.hostvars, the decoded hosts are
\* the hosts listed under some group, each exactly once, and no host that no
\* group lists; _meta.hostvars supplies their variables (empty without entry).
DecodedHostSet ==
    phase = "decoded" =>
        /\ \A h \in ListedHosts :
              Cardinality({j \in DOMAIN loaded_inventory.hosts :
                              loaded_inventory.hosts[j].name = h}) = 1
        /\ \A j \in DOMAIN loaded_inventory.hosts :
              /\ loaded_inventory.hosts[j].name \in ListedHosts
              /\ loaded_inventory.hosts[j].variables =
                    HostvarsOf(loaded_inventory.hosts[j].name)

----------------------------------------------------------------------------
(* SpecPlaybook: create_playbook dumps a Playbook value, load_playbook reads a *)
(* playbook file.  A YAML mapping is a sequence of <<key, value>> pairs in     *)
(* document order; a value is a string or a mapping                            *)

MaxTasks == 2
MaxTaskKeys == 2

Scalar(s) == [type |-> "str", scalar |-> s]
Mapping(d) == [type |-> "dict", items |-> d]

\* isinstance(value, dict)
IsDict(value) == value.type = "dict"

\* the keys of an ordered mapping, and mapping.get(key)
KeysOf(m) == {m[i][1] : i \in DOMAIN m}
ValueAt(m, key) == m[CHOOSE i \in DOMAIN m : m[i][1] = key][2]

\* the keys load_playbook does not take for a module name
ReservedKeys ==
    {"name", "become", "become_user", "ignore_errors", "when", "register", "loop",
     "loop_control"}

\* yaml.safe_dump writes the keys of a mapping sorted; these are the keys that
\* occur, in that order
KeyOrder == <<"", "args", "command", "copy", "module", "name", "when">>

SortKeys(m) ==
    LET present == SelectSeq(KeyOrder, LAMBDA k : k \in KeysOf(m))
    IN  [i \in 1..Len(present) |-> <<present[i], ValueAt(m, present[i])>>]

\* task.model_dump(exclude_none=True): the fields of PlaybookTask in
\* declaration order, those that are None left out
DumpTask(task) ==
    <<<<"name", Scalar(task.name)>>, <<"module", Scalar(task.module)>>,
      <<"args", Mapping(task.args)>>>>
    \o (IF task.when # {} THEN <<<<"when", Scalar(TheValue(task.when))>>>> ELSE <<>>)

\* play_dict: play.model_dump(exclude_none=True) with play_dict['tasks'] set
\* to the dumped tasks
DumpPlay(play) ==
    [name |-> play.name, hosts |-> play.hosts,
     tasks |-> [i \in DOMAIN play.tasks |-> DumpTask(play.tasks[i])]]

\* playbook_data of create_playbook
DumpPlaybook(pb) == [i \in DOMAIN pb.plays |-> DumpPlay(pb.plays[i])]

\* yaml.safe_dump(playbook_data, f) followed by yaml.safe_load(f): the same
\* plays with the keys of every task in sorted order
YamlFile(data) ==
    [i \in DOMAIN data |->
        [k \in DOMAIN data[i] |->
            IF k = "tasks"
            THEN [j \in DOMAIN data[i]["tasks"] |-> SortKeys(data[i]["tasks"][j])]
            ELSE data[i][k]]]

\* the positions of the keys that are not reserved
ModuleKeys(task_data) == {i \in DOMAIN task_data : task_data[i][1] \notin ReservedKeys}

\* the task built once module_name and args are known
PlaybookTask(task_data, module_name, value) ==
    [name |-> IF "name" \in KeysOf(task_data) THEN ValueAt(task_data, "name").scalar
              ELSE "Unnamed task",
     module |-> module_name,
     args |-> IF IsDict(value) THEN value.items ELSE [_raw_params |-> value.scalar],
     when |-> IF "when" \in KeysOf(task_data) THEN {ValueAt(task_data, "when").scalar}
              ELSE {}]

\* a search for the module that keeps going to the last key that is not reserved
DecodeTaskLastKey(task_data) ==
    IF ModuleKeys(task_data) = {} THEN <<>>
    ELSE LET i == CHOOSE x \in ModuleKeys(task_data) : \A y \in ModuleKeys(task_data) : y <= x
         IN  IF task_data[i][1] = "" THEN <<>>
             ELSE <<PlaybookTask(task_data, task_data[i][1], task_data[i][2])>>

\* a search for the module that takes the first key whatever it is
DecodeTaskAnyKey(task_data) ==
    IF task_data = <<>> \/ task_data[1][1] = "" THEN <<>>
    ELSE <<PlaybookTask(task_data, task_data[1][1], task_data[1][2])>>

\* one turn of "for task_data in play_data['tasks']": the tasks it appends.
\* The search stops at the first key that is not reserved; "if not
\* module_name: continue" skips the task when there is none or when the key
\* found is the empty string
DecodeTask(task_data) ==
    IF ModuleKeys(task_data) = {} THEN <<>>
    ELSE LET i == CHOOSE x \in ModuleKeys(task_data) : \A y \in ModuleKeys(task_data) : x <= y
         IN  IF task_data[i][1] = "" THEN <<>>
             ELSE <<PlaybookTask(task_data, task_data[i][1], task_data[i][2])>>

RECURSIVE DecodeTasks(_)
DecodeTasks(tasks) ==
    IF tasks = <<>> THEN <<>> ELSE DecodeTask(Head(tasks)) \o DecodeTasks(Tail(tasks))

\* one turn of "for play_data in playbook_data"
DecodePlay(play_data) ==
    [name |-> DictGet(play_data, "name", "Unnamed play"),
     hosts |-> play_data["hosts"],
     tasks |-> IF "tasks" \in DOMAIN play_data THEN DecodeTasks(play_data["tasks"])
               ELSE <<>>]

\* load_playbook from yaml.safe_load on.  PlaybookPlay requires hosts: a play
\* without it fails validation and the whole load fails
DecodePlaybook(data) ==
    IF \E i \in DOMAIN data : "hosts" \notin DOMAIN data[i]
    THEN [ok |-> FALSE]
    ELSE [ok |-> TRUE, plays |-> [i \in DOMAIN data |-> DecodePlay(data[i])]]

\* Playbook values
PlaybookTasks ==
    [name : {"x"}, module : {"copy", "command"},
     args : {EmptyDict, [dest |-> "/tmp/f"]}, when : Opt({"cond"})]

Playbooks ==
    [plays : {<<[name |-> "p", hosts |-> "all", tasks |-> ts]>> :
                 ts \in SeqsUpTo(PlaybookTasks, MaxTasks)}]

\* playbook files
FileKeys == {"name", "copy", "command", ""}

FileValue(key) ==
    CASE key = "name" -> Scalar("x")
      [] key = "copy" -> Mapping([dest |-> "/tmp/f"])
      [] key = "command" -> Scalar("echo hi")
      [] OTHER -> Scalar("nothing")

TaskMappings ==
    {[i \in DOMAIN keys |-> <<keys[i], FileValue(keys[i])>>] :
        keys \in {q \in SeqsUpTo(FileKeys, MaxTaskKeys) :
                     \A i, j \in DOMAIN q : i # j => q[i] # q[j]}}

FilePlay(keys, tasks) ==
    [k \in keys |-> CASE k = "name" -> "p" [] k = "hosts" -> "all" [] OTHER -> tasks]

\* a play whose only task names no module
NameOnlyPlay == FilePlay({"name", "hosts", "tasks"}, <<<<<<"name", Scalar("x")>>>>>>)

\* plays with every list of tasks, and plays that lack a key
FilePlays ==
    {FilePlay({"name", "hosts", "tasks"}, tasks) : tasks \in SeqsUpTo(TaskMappings, MaxTasks)}
    \cup {FilePlay({"name", "hosts"}, <<>>)}
    \cup {FilePlay(keys, <<task>>) :
             keys \in {{"hosts", "tasks"}, {"name", "tasks"}}, task \in TaskMappings}

PlaybookFiles ==
    {<<>>} \cup {<<p>> : p \in FilePlays}
    \cup {<<FilePlay({"hosts", "tasks"}, <<task, <<<<"name", Scalar("x")>>>>>>), NameOnlyPlay>> :
             task \in TaskMappings}
    \cup {<<NameOnlyPlay, FilePlay({"hosts", "tasks"}, <<task>>)>> : task \in TaskMappings}

InitPlaybook ==
    /\ CallIdle
    /\ ServerIdle
    /\ events = <<>>
    /\ results = EmptyDict
    /\ task_results = <<>>
    /\ args = <<>>
    /\ module_args = <<>>
    /\ inventory = EmptyDict
    /\ inventory_data = EmptyDict
    /\ loaded_inventory = EmptyDict
    /\ loaded_playbook = [ok |-> FALSE]
    /\ tools = EmptyDict
    /\ registered = <<>>
    /\ \/ /\ phase = "playbook_value"
          /\ playbook \in Playbooks
          /\ playbook_data = <<>>
       \/ /\ phase = "playbook_file"
          /\ playbook = [plays |-> <<>>]
          /\ playbook_data \in PlaybookFiles

\* create_playbook writes the file
EncodePlaybook ==
    /\ phase = "playbook_value"
    /\ playbook_data' = YamlFile(DumpPlaybook(playbook))
    /\ phase' = "playbook_written"
    /\ UNCHANGED <<events, results, task_results, args, module_args, inventory,
                   inventory_data>>
    /\ UNCHANGED <<loaded_inventory, playbook, loaded_playbook, tools, registered>>
    /\ UNCHANGED serverVars
    /\ UNCHANGED callVars

\* load_playbook reads a file, one create_playbook wrote or any other
LoadPlaybookFile ==
    /\ phase \in {"playbook_written", "playbook_file"}
    /\ loaded_playbook' = DecodePlaybook(playbook_data)
    /\ phase' = IF phase = "playbook_written" THEN "playbook_reloaded" ELSE "playbook_loaded"
    /\ UNCHANGED <<events, results, task_results, args, module_args, inventory,
                   inventory_data>>
    /\ UNCHANGED <<loaded_inventory, playbook, playbook_data, tools, registered>>
    /\ UNCHANGED serverVars
    /\ UNCHANGED callVars

NextPlaybook == EncodePlaybook \/ LoadPlaybookFile

SpecPlaybook == InitPlaybook /\ [][NextPlaybook]_vars

\* C12: a task with name n, module m and arguments a is written as a mapping
\* that has the key m with the value a, and reading the written file gives back
\* a task with module m and arguments a.
PlaybookTaskRoundTrip ==
    (phase = "playbook_reloaded") =>
        /\ loaded_playbook.ok
        /\ Len(loaded_playbook.plays) = Len(playbook.plays)
        /\ \A i \in DOMAIN playbook.plays :
              /\ Len(loaded_playbook.plays[i].tasks) = Len(playbook.plays[i].tasks)
              /\ \A j \in DOMAIN playbook.plays[i].tasks :
                    LET task == playbook.plays[i].tasks[j]
                        written == playbook_data[i]["tasks"][j]
                        back == loaded_playbook.plays[i].tasks[j]
                    IN  /\ task.module \in KeysOf(written)
                        /\ ValueAt(written, task.module) = Mapping(task.args)
                        /\ back.module = task.module
                        /\ back.args = task.args

\* the tasks of play i of the file that was read
FileTasks(i) ==
    IF "tasks" \in DOMAIN playbook_data[i] THEN playbook_data[i]["tasks"] ELSE <<>>

HasFreeKey(t) == \E k \in DOMAIN t : t[k][1] \notin ReservedKeys

\* the position of the first key of t that is not reserved
FirstFreeKey(t) ==
    CHOOSE k \in DOMAIN t :
        /\ t[k][1] \notin ReservedKeys
        /\ \A l \in 1..(k - 1) : t[l][1] \in ReservedKeys

\* the tasks of play i that load_playbook turns into a task
Decoded(i) ==
    {j \in DOMAIN FileTasks(i) :
        HasFreeKey(FileTasks(i)[j]) /\ FileTasks(i)[j][FirstFreeKey(FileTasks(i)[j])][1] # ""}

Loaded == phase \in {"playbook_loaded", "playbook_reloaded"} /\ loaded_playbook.ok

\* C13: the module of a decoded task is the first key of its mapping, in
\* document order, that is not reserved; its args are that key's value when the
\* value is a mapping and {_raw_params: value} otherwise; keys after it count
\* for nothing.
ModuleIsFirstFreeKey ==
    Loaded =>
        \A i \in DOMAIN playbook_data :
            /\ Len(loaded_playbook.plays[i].tasks) = Cardinality(Decoded(i))
            /\ \A j \in Decoded(i) :
                  LET t == FileTasks(i)[j]
                      back == loaded_playbook.plays[i].tasks[
                                  Cardinality({x \in Decoded(i) : x <= j})]
                      key == t[FirstFreeKey(t)][1]
                      value == t[FirstFreeKey(t)][2]
                  IN  /\ back.module = key
                      /\ value.type = "dict" => back.args = value.items
                      /\ value.type # "dict" =>
                            /\ DOMAIN back.args = {"_raw_params"}
                            /\ back.args["_raw_params"] = value.scalar

\* a task "command: echo hi" followed by "copy: {...}" was read as command
\* with the raw parameter
ModuleIsFirstFreeKeyWitness ==
    /\ phase = "playbook_loaded"
    /\ loaded_playbook.ok
    /\ Len(playbook_data) = 1
    /\ "tasks" \in DOMAIN playbook_data[1]
    /\ playbook_data[1]["tasks"] =
          <<<<<<"command", Scalar("echo hi")>>, <<"copy", Mapping([dest |-> "/tmp/f"])>>>>>>
    /\ Len(loaded_playbook.plays[1].tasks) = 1
    /\ loaded_playbook.plays[1].tasks[1].module = "command"
    /\ loaded_playbook.plays[1].tasks[1].args = [_raw_params |-> "echo hi"]

----------------------------------------------------------------------------
(* SpecRegistry: the decorator FastMCP.tool() is applied to handlers *)

MaxRegistrations == 2

\* inspect.Parameter: default is empty ({}) or the declared default
Param(name, annotation, default) ==
    [name |-> name, annotation |-> annotation, default |-> default]

Signatures ==
    {<<>>,
     <<Param("request", "Request", {}), Param("ctx", "Context", {})>>,
     <<Param("name", "str", {}), Param("count", "Optional[int]", {"None"}),
       Param("ctx", "Context", {})>>,
     <<Param("context", "Context", {}), Param("name", "str", {"x"})>>,
     <<Param("count", "int", {}), Param("name", "str", {})>>}

\* the functions the decorator is applied to: __name__, __doc__, signature, body
Handlers ==
    [name : {"run", "load"}, doc : Opt({"doc"}), params : Signatures, body : {"f", "g"}]

\* a schema that lists every parameter and demands them all
RequestModelAllRequired(params) ==
    [n \in {params[i].name : i \in DOMAIN params} |->
        LET param == params[CHOOSE i \in DOMAIN params : params[i].name = n]
        IN  [annotation |-> param.annotation, required |-> TRUE, default |-> param.default]]

\* create_model(..., **params): a field whose default is ... is required
RequestModel(params) ==
    [n \in {params[i].name : i \in {j \in DOMAIN params : params[j].name \notin {"ctx", "context"}}} |->
        LET param == params[CHOOSE i \in DOMAIN params : params[i].name = n]
        IN  [annotation |-> param.annotation,
             required |-> (param.default = {}),
             default |-> param.default]]

\* decorator(func): self.tools[tool_name] = {func, doc, request_model}
ToolDecorator(registry, func) ==
    DictPut(registry, func.name,
            [func |-> func,
             doc |-> IF func.doc # {} THEN TheValue(func.doc) ELSE <<func.name, " tool">>,
             request_model |-> RequestModel(func.params)])

InitRegistry ==
    /\ CallIdle
    /\ ServerIdle
    /\ phase = "registry"
    /\ events = <<>>
    /\ results = EmptyDict
    /\ task_results = <<>>
    /\ args = <<>>
    /\ module_args = <<>>
    /\ inventory = EmptyDict
    /\ inventory_data = EmptyDict
    /\ CodecIdle

\* @mcp.tool() above a function definition
Register ==
    /\ phase = "registry"
    /\ Len(registered) < MaxRegistrations
    /\ \E func \in Handlers :
          /\ tools' = ToolDecorator(tools, func)
          /\ registered' = Append(registered, func)
    /\ UNCHANGED <<phase, events, results, task_results, args, module_args, inventory,
                   inventory_data>>
    /\ UNCHANGED <<loaded_inventory, playbook, playbook_data, loaded_playbook>>
    /\ UNCHANGED serverVars
    /\ UNCHANGED callVars

NextRegistry == Register

SpecRegistry == InitRegistry /\ [][NextRegistry]_vars

\* the first handler registered under a name
FirstRegistered(name) ==
    registered[CHOOSE i \in DOMAIN registered :
                  /\ registered[i].name = name
                  /\ \A j \in 1..(i - 1) : registered[j].name # name]

\* C15: a registration under a name already in the registry changes nothing:
\* the handler, description and schema stored under a name are those of the
\* first registration of that name.
DuplicateRegistrationRejected ==
    (phase = "registry") =>
        \A name \in DOMAIN tools :
            /\ tools[name].func = FirstRegistered(name)
            /\ tools[name] = ToolDecorator(EmptyDict, FirstRegistered(name))[name]

\* C16: the schema stored for a tool has a field for every parameter of its
\* handler except ctx / context, required exactly when the parameter declares no
\* default and optional exactly when it declares one.
SchemaRequiredIffNoDefault ==
    (phase = "registry") =>
        \A name \in DOMAIN tools :
            LET params == tools[name].func.params
                schema == tools[name].request_model
            IN  /\ "ctx" \notin DOMAIN schema
                /\ "context" \notin DOMAIN schema
                /\ \A i \in DOMAIN params :
                      params[i].name \notin {"ctx", "context"} =>
                          /\ params[i].name \in DOMAIN schema
                          /\ schema[params[i].name].required <=> (params[i].default = {})
                /\ \A n \in DOMAIN schema : \E i \in DOMAIN params : params[i].name = n

\* a handler (name, count=None, ctx) is registered: name required, count optional
SchemaWitness ==
    /\ phase = "registry"
    /\ "run" \in DOMAIN tools
    /\ Len(tools["run"].func.params) = 3
    /\ DOMAIN tools["run"].request_model = {"name", "count"}
    /\ tools["run"].request_model["name"].required
    /\ ~tools["run"].request_model["count"].required

----------------------------------------------------------------------------
(* SSH key material, removal failures, ownership of rendered files, missing sources *)

InlineKeyOnly == config.private_key_content # {} /\ config.private_key_path = {}

\* C17: a run configured with inline key content and no key path reaches the
\* engine call with env/ssh_key present below the run's directory, holding
\* exactly the supplied material, with mode 0600.
InlineKeyOwnerOnly ==
    (tool \in RunTools /\ pc = "engine" /\ InlineKeyOnly) =>
        /\ IsPrefix(RunDir, SshKeyPath)
        /\ Exists(fs, SshKeyPath)
        /\ fs[SshKeyPath] = TheValue(config.private_key_content)
        /\ SshKeyPath \in DOMAIN modes
        /\ modes[SshKeyPath] = OwnerOnly

\* a client run with an inline key is about to call the engine
InlineKeyWitness ==
    /\ impl = "client"
    /\ tool = "run_ad_hoc_command"
    /\ pc = "engine"
    /\ InlineKeyOnly
    /\ fs[SshKeyPath] = "INLINE KEY"

\* the result a run returns from what the run itself produced
OwnResult == IF failure = "exception" THEN FailureResult(tool, exc) ELSE RunResult

\* C18: a removal that fails raises nothing and changes nothing of the result:
\* the step that meets the failure goes where the successful removal goes, with
\* the same exception (or none) on record, and the call returns the result built
\* from the run's own return code, events, output and exception.
RemovalFailureSuppressed ==
    /\ [](  (tool \in RunTools /\ pc = "done" /\ removalFailed) =>
               /\ Len(responses) = 1
               /\ responses[1] = OwnResult
               /\ (failure # "exception") => (responses[1].success <=> runner.rc = 0))
    /\ [][ (removalFailed' /\ ~removalFailed) =>
               /\ exc' = exc
               /\ failure' = failure
               /\ <<runner, captured, results, task_results>>' =
                     <<runner, captured, results, task_results>>
               /\ pc = "cleanup" => (pc' = "return" /\ responses' = responses)
               /\ pc = "except" =>
                     (pc' = "done" /\ responses' = Append(responses, FailureResult(tool, exc)))
          ]_vars

\* a run that succeeded returned success although its directory could not be removed
RemovalFailureWitness ==
    /\ tool = "run_playbook"
    /\ pc = "done"
    /\ removalFailed
    /\ Exists(fs, RunDir)
    /\ Len(responses) = 1
    /\ responses[1].success
    /\ responses[1].stdout = "engine stdout"

\* C19: an inventory or playbook supplied by value (and no path) is rendered
\* to a file beneath the run's private directory, the file the engine is given,
\* and once the call has ended with the directory removed nothing the run
\* created is left on disk.
RenderedFilesOwned ==
    (tool \in RunTools) =>
        /\ (pc = "engine" /\ config.inventory # {} /\ config.inventory_path = {}) =>
              (Exists(fs, InventoryFile) /\ IsPrefix(RunDir, InventoryFile))
        /\ (pc = "engine" /\ config.playbook # {} /\ config.playbook_path = {}
               /\ ~(impl = "mcp" /\ tool = "run_ad_hoc_command")) =>
              (Exists(fs, PlaybookFile) /\ IsPrefix(RunDir, PlaybookFile))
        /\ (CallEnded /\ ~Exists(fs, RunDir)) => DOMAIN fs \subseteq DOMAIN CallFs

LoadTools == {"load_inventory", "load_playbook"}

NotFoundMessage ==
    IF tool = "load_inventory" THEN "Inventory file not found: "
    ELSE "Playbook file not found: "

\* C20: load_inventory and load_playbook called with a path that does not
\* exist return success=false and a message naming the path, with no
\* inventory or playbook in the response; the engine is not invoked, nothing
\* is raised and no file is created, changed or removed.
MissingSourceOnLoad ==
    (tool \in LoadTools /\ pc # "start" /\ ~Exists(CallFs, config.path)) =>
        /\ pc = "done"
        /\ exc = NoExc
        /\ responses = <<[success |-> FALSE, message |-> <<NotFoundMessage, config.path>>]>>
        /\ engine_calls = 0
        /\ fs = CallFs
        /\ modes = EmptyDict

\* the handler of load_inventory has answered for a path that is not there
MissingSourceWitness ==
    /\ impl = "mcp"
    /\ tool = "load_inventory"
    /\ pc = "done"
    /\ config.path = MissingPath
    /\ Len(responses) = 1
    /\ ~responses[1].success

----------------------------------------------------------------------------
(* Run configuration, step order, credentials, retries, output capture and  *)
(* the success flag of run_playbook / run_ad_hoc_command                    *)

\* the engine has been invoked by the call
EngineInvoked == tool \in RunTools /\ engine_calls > 0

\* C21: whenever a run invokes the engine, the invocation parameters carry a
\* timeout equal to the configuration's timeout when it has one (any integer,
\* 0 included) and no timeout when the configuration has none.
TimeoutForwarded ==
    EngineInvoked => runner_config.timeout = config.timeout

\* the place of a position in the handler's text; the except clause comes after
\* every step of the try block
StepRank(p) ==
    CASE p = "idle" -> 0
      [] p = "start" -> 1
      [] p = "mkdir" -> 2
      [] p = "inventory" -> 3
      [] p = "playbook" -> 4
      [] p = "ssh" -> 5
      [] p = "config" -> 6
      [] p = "engine" -> 7
      [] p = "events" -> 8
      [] p = "output" -> 9
      [] p = "cleanup" -> 10
      [] p = "return" -> 11
      [] p = "except" -> 12
      [] OTHER -> 13

\* the steps of the call that render a playbook file
RendersPlaybook == impl = "client" \/ tool = "run_playbook"

\* every file the configuration asks the run to render is on disk
Materialised ==
    /\ Exists(fs, RunDir)
    /\ (config.inventory # {} /\ config.inventory_path = {}) => Exists(fs, InventoryFile)
    /\ (RendersPlaybook /\ config.playbook # {} /\ config.playbook_path = {})
          => Exists(fs, PlaybookFile)
    /\ (config.private_key_path # {} \/ config.private_key_content # {})
          => Exists(fs, SshKeyPath)

\* the run has been through its removal step and the directory is gone
Cleaned ==
    /\ tool \in RunTools
    /\ StepRank(pc) >= StepRank("return")
    /\ runner.returned
    /\ exc \in {NoExc, "result validation failed"}
    /\ ~Exists(fs, RunDir)

\* C24: within one run the steps are taken only in the order create directory,
\* materialise inventory / playbook / credential, invoke engine, translate events
\* and capture output, remove directory, return; the engine is invoked only once
\* materialisation has finished; and once the directory has been removed no
\* further step reads, writes or removes anything in it.
RunLifecycleOrder ==
    /\ [][tool' \in RunTools => StepRank(pc') > StepRank(pc)]_vars
    /\ [][(tool \in RunTools /\ engine_calls' # engine_calls)
            => (pc = "engine" /\ Materialised)]_vars
    /\ [][Cleaned => (fs' = fs /\ modes' = modes /\ captured' = captured)]_vars

\* a run whose directory was removed went on to its except clause and returned
RunLifecycleWitness ==
    /\ tool \in RunTools
    /\ pc = "done"
    /\ exc = "result validation failed"
    /\ config.private_key_content # {}
    /\ engine_calls = 1
    /\ ~Exists(fs, RunDir)

\* some file other than the rendered inventory (a mapping, not text) holds text
OnDisk(text) == \E p \in DOMAIN fs \ {InventoryFile} : fs[p] = text

\* C25: a run materialises at most one key; when both a key path and inline
\* content are supplied only the copy of the path is made and the inline content
\* is never on disk; when neither is supplied there is no env directory and no
\* key file; the passphrase is never written to a file.
SingleCredentialStrategy ==
    /\ [](tool \in RunTools =>
            /\ config.private_key_path # {} =>
                  /\ ~OnDisk("INLINE KEY")
                  /\ Exists(fs, SshKeyPath) =>
                        fs[SshKeyPath] = fs[TheValue(config.private_key_path)]
            /\ (config.private_key_path = {} /\ config.private_key_content = {}) =>
                  (~Exists(fs, EnvDir) /\ ~Exists(fs, SshKeyPath))
            /\ ~OnDisk("PASSPHRASE"))
    /\ [][(Exists(fs', SshKeyPath) /\ (Exists(fs, SshKeyPath) => fs'[SshKeyPath] # fs[SshKeyPath]))
            => (pc = "ssh" /\ ~Exists(fs, SshKeyPath))]_vars

\* both a key path and inline content were supplied, with a passphrase, and the
\* key step has acted
SingleCredentialWitness ==
    /\ tool \in RunTools
    /\ pc = "engine"
    /\ config.private_key_path = {KeySource}
    /\ config.private_key_content # {}
    /\ config.key_passphrase # {}
    /\ fs[SshKeyPath] = "KEY MATERIAL"

\* the exceptions of the configuring steps
ConfiguringErrors ==
    {"mkdir failed", "inventory write failed", "playbook write failed",
     "No such file or directory: private key", "chmod failed"}

\* C28: a run invokes the engine at most once, not at all when configuring
\* raised, and exactly once when the engine call itself raised.
NoRetries ==
    tool \in RunTools =>
        /\ engine_calls <= 1
        /\ exc \in ConfiguringErrors => engine_calls = 0
        /\ exc = "engine failed" => engine_calls = 1
        /\ StepRank(pc) < StepRank("engine") => engine_calls = 0

\* the engine call raised and the run has returned its failure
NoRetriesWitness ==
    /\ tool \in RunTools
    /\ pc = "done"
    /\ exc = "engine failed"
    /\ engine_calls = 1

\* the terminal response of the call
Response == responses[Len(responses)]

\* C29: in a run whose engine returned, stdout and stderr are read before the
\* directory is removed, the returned fields equal the files as the engine left
\* them, and a file the engine did not write yields "" and no failure.
OutputCapturedBeforeCleanup ==
    (tool \in RunTools /\ runner.returned) =>
        /\ pc = "cleanup" =>
              /\ Exists(fs, RunDir)
              /\ captured = [stdout |-> ReadIfExists(StdoutPath),
                              stderr |-> ReadIfExists(StderrPath)]
        /\ (pc = "done" /\ failure # "exception") =>
              (Response.stdout = captured.stdout /\ Response.stderr = captured.stderr)
        /\ exc # "No such file or directory: stdout"

\* the exceptions that can be met after the engine has returned
LateErrors ==
    {"KeyError: event_data", "No such file or directory: stdout", "ctx.info failed",
     "result validation failed"}

\* what the run makes of runner.events
Translated ==
    IF tool = "run_playbook"
    THEN [stats |-> EngineStats, task_results |-> ProcessEvents(<<>>, events)]
    ELSE [results |-> CollapseResults(EmptyDict, events)]

\* C30 as stated: whenever the engine returns without raising, success is true
\* exactly when the return code is 0 and the result carries the statistics and
\* the translated events; success = false with empty statistics is returned only
\* when the return code is non-zero or the engine call raised.
SuccessTracksExitStatus ==
    (tool \in RunTools /\ pc = "done") =>
        /\ runner.returned =>
              /\ Response.success = (runner.rc = 0)
              /\ \A f \in DOMAIN Translated : Response[f] = Translated[f]
        /\ Response = FailureResult(tool, exc) =>
              ((runner.returned /\ runner.rc # 0) \/ exc = "engine failed")

\* C30, amended: a call that reaches its return statement has success true
\* exactly when the return code is 0 and carries the statistics, the translated
\* events and the captured output; a call in which any step raised (configuring,
\* the engine call, or a step after the engine returned, whatever its return
\* code) returns success = false with empty statistics and the message as stderr.
SuccessOnReturnFailureOnException ==
    (tool \in RunTools /\ pc = "done") =>
        IF failure # "exception"
        THEN /\ runner.returned
             /\ Response.success = (runner.rc = 0)
             /\ \A f \in DOMAIN Translated : Response[f] = Translated[f]
             /\ Response.stdout = captured.stdout
             /\ Response.stderr = captured.stderr
        ELSE /\ Response = FailureResult(tool, exc)
             /\ exc \in ConfiguringErrors \cup LateErrors \cup {"engine failed"}

\* the engine returned 0 and a later step raised: the result is a failure
SuccessFlagWitness ==
    /\ tool \in RunTools
    /\ pc = "done"
    /\ runner.returned
    /\ runner.rc = 0
    /\ exc \in LateErrors
    /\ Response.success = FALSE

----------------------------------------------------------------------------
(* SpecLifespan: FastMCP.run with the lifespan of the Ansible server.  lifespan *)
(* holds the position of run(), self.request_context, how often the lifespan   *)
(* context was entered and exited, and the exception that leaves run()         *)

MaxIterations == 2

\* the directories ansible_mcp_lifespan makes below the base directory
LifespanDirs == <<<<"playbooks">>, <<"inventory">>, PrivateDataDir>>

\* the mkdir calls of the lifespan: the base directory, then LifespanDirs
LifespanSteps == Len(LifespanDirs) + 1

NoContext == "{}"

InitLifespan ==
    /\ impl = "none"
    /\ tool = "none"
    /\ pc = "idle"
    /\ config = EmptyDict
    /\ \E existing \in SUBSET SeqRange(LifespanDirs) : fs = [p \in existing |-> Dir]
    /\ bound = FALSE
    /\ exc = NoExc
    /\ failure = "none"
    /\ runner = NoRunner
    /\ captured = EmptyDict
    /\ removalFailed = FALSE
    /\ responses = <<>>
    /\ modes = EmptyDict
    /\ engine_calls = 0
    /\ runner_config = EmptyDict
    /\ phase = "lifespan"
    /\ events = <<>>
    /\ results = EmptyDict
    /\ task_results = <<>>
    /\ args = <<>>
    /\ module_args = <<>>
    /\ inventory = EmptyDict
    /\ inventory_data = EmptyDict
    /\ CodecIdle
    /\ listing = <<>>
    /\ sessions = <<>>
    /\ \E configured \in BOOLEAN :
          lifespan = [pc |-> "start", configured |-> configured,
                      request_context |-> NoContext, context |-> NoContext,
                      step |-> 0, entered |-> 0, exited |-> 0, serving |-> FALSE,
                      iterations |-> 0, left_by |-> "none", raised |-> "none"]

\* the variables run() does not touch
LifespanFrame ==
    /\ UNCHANGED <<impl, tool, pc, config, bound, exc, failure, runner, captured,
                   removalFailed, responses, modes, engine_calls, runner_config>>
    /\ UNCHANGED <<phase, events, results, task_results, args, module_args, inventory,
                   inventory_data>>
    /\ UNCHANGED codecVars
    /\ UNCHANGED <<listing, sessions>>

\* an exception other than KeyboardInterrupt leaves the try block: the finally
\* clause runs and the exception goes on out of run()
LeaveTry(l, by) ==
    [l EXCEPT !.pc = "finally", !.left_by = by,
              !.raised = IF by = "exception" THEN "Exception" ELSE "none"]

\* loop = asyncio.get_event_loop()
GetEventLoop ==
    /\ phase = "lifespan"
    /\ lifespan.pc = "start"
    /\ \/ lifespan' = [lifespan EXCEPT !.pc = "prepare"]
       \/ lifespan' = LeaveTry(lifespan, "exception")
    /\ UNCHANGED fs
    /\ LifespanFrame

\* _prepare_context: context = {}; if self.lifespan: the context manager is made
PrepareContext ==
    /\ phase = "lifespan"
    /\ lifespan.pc = "prepare"
    /\ lifespan' = [lifespan EXCEPT !.pc = IF lifespan.configured THEN "entering"
                                           ELSE "assign"]
    /\ UNCHANGED fs
    /\ LifespanFrame

\* await lifespan_context.__aenter__(): ansible_mcp_lifespan up to its yield.
\* Each mkdir(exist_ok=True) can raise; after the last one the state is yielded
\* and the context is entered
EnterLifespan ==
    /\ phase = "lifespan"
    /\ lifespan.pc = "entering"
    /\ IF lifespan.step < LifespanSteps
       THEN \/ /\ lifespan' = [lifespan EXCEPT !.step = @ + 1]
               /\ fs' = IF lifespan.step = 0 THEN fs
                        ELSE Mkdir(fs, LifespanDirs[lifespan.step])
            \/ /\ lifespan' = LeaveTry(lifespan, "exception")
               /\ UNCHANGED fs
       ELSE /\ lifespan' = [lifespan EXCEPT !.pc = "assign", !.entered = @ + 1,
                                            !.context = "lifespan_context_manager"]
            /\ UNCHANGED fs
    /\ LifespanFrame

\* self.request_context = loop.run_until_complete(...) completes; the server
\* logs that it runs and enters loop.run_forever()
AssignContext ==
    /\ phase = "lifespan"
    /\ lifespan.pc = "assign"
    /\ lifespan' = [lifespan EXCEPT !.pc = "serving", !.serving = TRUE,
                                    !.request_context = lifespan.context]
    /\ UNCHANGED fs
    /\ LifespanFrame

\* Ctrl+C while the context is prepared, before the assignment has been made:
\* except KeyboardInterrupt logs, then the finally clause runs
InterruptPrepare ==
    /\ phase = "lifespan"
    /\ lifespan.pc \in {"prepare", "entering", "assign"}
    /\ lifespan' = LeaveTry(lifespan, "interrupt")
    /\ UNCHANGED fs
    /\ LifespanFrame

\* one turn of loop.run_forever()
Serve ==
    /\ phase = "lifespan"
    /\ lifespan.pc = "serving"
    /\ lifespan.iterations < MaxIterations
    /\ lifespan' = [lifespan EXCEPT !.iterations = @ + 1]
    /\ UNCHANGED fs
    /\ LifespanFrame

\* run_forever() ends: by KeyboardInterrupt, by another exception, or because
\* the loop was stopped
LeaveServing ==
    /\ phase = "lifespan"
    /\ lifespan.pc = "serving"
    /\ \E by \in {"interrupt", "exception", "stopped"} : lifespan' = LeaveTry(lifespan, by)
    /\ UNCHANGED fs
    /\ LifespanFrame

\* a clean-up that is part of the except KeyboardInterrupt clause
FinallyOnInterrupt ==
    /\ phase = "lifespan"
    /\ lifespan.pc = "finally"
    /\ lifespan' = [lifespan EXCEPT
                       !.pc = "stopped",
                       !.exited = IF /\ lifespan.left_by = "interrupt"
                                     /\ lifespan.request_context = "lifespan_context_manager"
                                  THEN @ + 1 ELSE @]
    /\ UNCHANGED fs
    /\ LifespanFrame

\* finally: if self.request_context: _cleanup_context, which awaits __aexit__
\* when the context holds a context manager
Finally ==
    /\ phase = "lifespan"
    /\ lifespan.pc = "finally"
    /\ lifespan' = [lifespan EXCEPT
                       !.pc = "stopped",
                       !.exited = IF /\ lifespan.request_context # NoContext
                                     /\ lifespan.request_context = "lifespan_context_manager"
                                  THEN @ + 1 ELSE @]
    /\ UNCHANGED fs
    /\ LifespanFrame

NextLifespan ==
    \/ GetEventLoop
    \/ PrepareContext
    \/ EnterLifespan
    \/ AssignContext
    \/ InterruptPrepare
    \/ Serve
    \/ LeaveServing
    \/ Finally

SpecLifespan == InitLifespan /\ [][NextLifespan]_vars

----------------------------------------------------------------------------
(* SpecOverlap: runs whose lifetimes overlap, each in its own directory below  *)
(* the private directory.  sessions holds the run identifiers issued so far   *)
(* and, per run, its position, its directory and what it read back            *)

MaxRuns == 2

Runs == 1..MaxRuns

\* the values uuid.uuid4().hex can take
RunIds == {"run_0", "run_1", "run_2", "run_3", "run_4"}

\* an identifier source that can issue a value again
Uuid4Repeats(issued) == RunIds

\* run_id = uuid.uuid4().hex: a value that was never issued before
Uuid4(issued) == RunIds \ issued

\* private_data_dir = state.private_data_dir / f"run_{run_id}"
SessionDir(run_id) == PrivateDataDir \o <<run_id>>

\* what the engine of a run prints: it names the run
SessionOutput(run_id) == run_id

NoSession ==
    [pc |-> "idle", tool |-> "none", run_id |-> "none", existed |-> FALSE,
     stdout |-> "unread"]

\* the private directory, with or without the directory an earlier run left
InitOverlap ==
    /\ impl = "none"
    /\ tool = "none"
    /\ pc = "idle"
    /\ config = EmptyDict
    /\ \/ fs = [p \in {PrivateDataDir} |-> Dir]
       \/ fs = [p \in {PrivateDataDir, SessionDir("run_0"),
                       SessionDir("run_0") \o <<"stdout">>} |->
                   IF p = SessionDir("run_0") \o <<"stdout">> THEN "stale" ELSE Dir]
    /\ bound = FALSE
    /\ exc = NoExc
    /\ failure = "none"
    /\ runner = NoRunner
    /\ captured = EmptyDict
    /\ removalFailed = FALSE
    /\ responses = <<>>
    /\ modes = EmptyDict
    /\ engine_calls = 0
    /\ runner_config = EmptyDict
    /\ phase = "overlap"
    /\ events = <<>>
    /\ results = EmptyDict
    /\ task_results = <<>>
    /\ args = <<>>
    /\ module_args = <<>>
    /\ inventory = EmptyDict
    /\ inventory_data = EmptyDict
    /\ CodecIdle
    /\ listing = <<>>
    /\ lifespan = EmptyDict
    /\ sessions = [issued |-> {"run_0"}, runs |-> [r \in Runs |-> NoSession]]

\* the variables the overlapping runs do not touch
OverlapFrame ==
    /\ UNCHANGED <<impl, tool, pc, config, bound, exc, failure, runner, captured,
                   removalFailed, responses, modes, engine_calls, runner_config>>
    /\ UNCHANGED <<phase, events, results, task_results, args, module_args, inventory,
                   inventory_data>>
    /\ UNCHANGED codecVars
    /\ UNCHANGED <<listing, lifespan>>

\* a run starts: run_id, private_data_dir.mkdir(exist_ok=True)
SessionStart(r) ==
    /\ phase = "overlap"
    /\ sessions.runs[r].pc = "idle"
    /\ \E t \in RunTools, run_id \in Uuid4(sessions.issued) :
          /\ sessions' = [issued |-> sessions.issued \cup {run_id},
                          runs |-> [sessions.runs EXCEPT
                                       ![r] = [pc |-> "configuring", tool |-> t,
                                               run_id |-> run_id,
                                               existed |-> Exists(fs, SessionDir(run_id)),
                                               stdout |-> "unread"]]]
          /\ fs' = Mkdir(fs, SessionDir(run_id))
    /\ OverlapFrame

\* ansible_runner.run(private_data_dir=...): the engine leaves its stdout in the
\* run's directory, or the call (or a configuring step before it) raises
SessionEngine(r) ==
    /\ phase = "overlap"
    /\ sessions.runs[r].pc = "configuring"
    /\ \/ /\ fs' = WriteFile(fs, SessionDir(sessions.runs[r].run_id) \o <<"stdout">>,
                             SessionOutput(sessions.runs[r].run_id))
          /\ sessions' = [sessions EXCEPT !.runs[r].pc = "ran"]
       \/ /\ sessions' = [sessions EXCEPT !.runs[r].pc = "except"]
          /\ UNCHANGED fs
    /\ OverlapFrame

\* stdout is read back from the run's directory
SessionRead(r) ==
    /\ phase = "overlap"
    /\ sessions.runs[r].pc = "ran"
    /\ LET path == SessionDir(sessions.runs[r].run_id) \o <<"stdout">>
       IN  sessions' = [sessions EXCEPT
                           !.runs[r].pc = "read",
                           !.runs[r].stdout = IF Exists(fs, path) THEN fs[path] ELSE ""]
    /\ UNCHANGED fs
    /\ OverlapFrame

\* shutil.rmtree(private_data_dir, ignore_errors=True), after the reads or in
\* the except clause; the run returns
SessionCleanup(r) ==
    /\ phase = "overlap"
    /\ sessions.runs[r].pc \in {"read", "except"}
    /\ fs' = Rmtree(fs, SessionDir(sessions.runs[r].run_id))
    /\ sessions' = [sessions EXCEPT !.runs[r].pc = "done"]
    /\ OverlapFrame

NextOverlap ==
    \E r \in Runs :
        \/ SessionStart(r)
        \/ SessionEngine(r)
        \/ SessionRead(r)
        \/ SessionCleanup(r)

SpecOverlap == InitOverlap /\ [][NextOverlap]_vars

\* the run has its directory: it has started and not yet removed it
Executing(r) == sessions.runs[r].pc \in {"configuring", "ran", "read", "except"}

====
